---- MODULE Spec2Model ----
(***************************************************************************)
(* A model of morgan's dependency-closure mirroring engine:                *)
(*   morgan/__init__.py  Mirrorer, mirror(args), parse_interpreter          *)
(*   morgan/utils.py     Cache, is_requirement_relevant                     *)
(* Versions are integers (python versions are major*100+minor), byte        *)
(* contents of files are small integers, and the remote index is a fixed    *)
(* finite catalogue.  The network is nondeterministic.                      *)
(***************************************************************************)
EXTENDS Integers, Sequences, FiniteSets, TLC

(***************************************************************************)
(* Bounds of the model.                                                    *)
(***************************************************************************)
\* number of consecutive runs of "morgan mirror" on the same index path
MaxRuns == 2

\* the value at which the request counters stop counting
CountCap == 3

\* the largest number of files in an index listing given to the file filter
MaxListing == 4

\* the largest number of environments given to is_requirement_relevant
MaxEnvs == 2

\* the largest number of lines in the value of a [requirements] key
MaxLines == 3

\* the largest number of assignments to the keys of one section
MaxAssign == 3

\* the largest number of lines in one assigned list
MaxItems == 2

\* the largest number of tokens in a file name given to to_single_dash
MaxName == 6

(***************************************************************************)
(* Sequence helpers.                                                       *)
(***************************************************************************)
Range(s) == {s[i] : i \in 1..Len(s)}

\* list(filter(pred, s)) for a set Keep of the elements to keep
FilterSeq(s, Keep) == SelectSeq(s, LAMBDA x : x \in Keep)

\* the position of the first occurrence of x in s, 0 when absent
IndexOf(s, x) == IF x \in Range(s) THEN CHOOSE i \in 1..Len(s) : s[i] = x /\ \A j \in 1..(i-1) : s[j] # x ELSE 0

\* the distinct elements of s in order of first appearance
RECURSIVE Dedup(_)
Dedup(s) ==
    IF s = <<>> THEN <<>>
    ELSE LET r == Dedup(SubSeq(s, 1, Len(s) - 1))
             x == s[Len(s)]
         IN IF x \in Range(r) THEN r ELSE Append(r, x)

(***************************************************************************)
(* Requirements (packaging.requirements.Requirement).                      *)
(*   name      canonical package name                                      *)
(*   specifier set of <<operator, version>> clauses (a conjunction)        *)
(*   marker    NoMarker, or one comparison  key == val                     *)
(*   extras    set of extra names                                          *)
(***************************************************************************)
NoMarker == [key |-> "", val |-> ""]

Marker(k, v) == [key |-> k, val |-> v]

Req(n, s, m, e) == [name |-> n, specifier |-> s, marker |-> m, extras |-> e]

\* required_by = None
NoReq == Req("", {}, NoMarker, {})

\* str(req): the canonical rendering, one string per distinct requirement
Str(req) == <<req.name, req.extras, req.specifier, req.marker>>

\* packaging: Specifier.contains for one clause
SpecContains(spec, v) ==
    CASE spec[1] = ">=" -> v >= spec[2]
      [] spec[1] = ">"  -> v > spec[2]
      [] spec[1] = "<=" -> v <= spec[2]
      [] spec[1] = "<"  -> v < spec[2]
      [] spec[1] = "==" -> v = spec[2]
      [] spec[1] = "!=" -> v # spec[2]
      [] OTHER -> FALSE

\* packaging: SpecifierSet.contains, the conjunction of its clauses
SpecifierContains(specifier, v) == \A spec \in specifier : SpecContains(spec, v)

(***************************************************************************)
(* Environments (Mirrorer.__init__).  An environment maps marker keys to   *)
(* values; "extra" holds the set of extras whose comma-joined rendering    *)
(* the code stores there.  python_full_version = 0 and platform_tag = {}   *)
(* stand for an absent key.  A compiled platform regex is represented by   *)
(* the set of platform tag names it fully matches.                         *)
(***************************************************************************)
Env(pv, pfv, sp, pm, ptag) == [python_version |-> pv, python_full_version |-> pfv, sys_platform |-> sp, platform_machine |-> pm, platform_tag |-> ptag, extra |-> {}]

\* a wheel platform tag: its name, the sys_platform and machine substrings it
\* contains in that order, the digits of a <word>_<a>_<b> part (or <<>>), and
\* the legacy manylinux word it contains (or "")
Platform(n, sp, pm, ab, lg) == [name |-> n, sys |-> sp, machine |-> pm, ab |-> ab, legacy |-> lg]

PlatAny == Platform("any", "", "", <<>>, "")

PlatLinux217 == Platform("manylinux_2_17_x86_64", "linux", "x86_64", <<2, 17>>, "")

PlatLinux2014 == Platform("manylinux2014_x86_64", "linux", "x86_64", <<>>, "manylinux2014")

PlatWin == Platform("win_amd64", "win", "amd64", <<>>, "")

Platforms == {PlatAny, PlatLinux217, PlatLinux2014, PlatWin}

\* re.compile(".*" + sys_platform + ".*" + platform_machine) or the explicit platform_tag
PlatformRegex(env) ==
    IF env.platform_tag # {} THEN env.platform_tag
    ELSE {p.name : p \in {q \in Platforms : q.sys = env.sys_platform /\ q.machine = env.platform_machine}}

\* self._supported_pyversions, one entry per environment
SupportedPyversions(envs) == [i \in 1..Len(envs) |-> IF envs[i].python_full_version # 0 THEN envs[i].python_full_version ELSE envs[i].python_version]

\* self._supported_platforms, one entry per environment
SupportedPlatforms(envs) == [i \in 1..Len(envs) |-> PlatformRegex(envs[i])]

\* a marker with an operator other than equality, as in  sys_platform ~= "linux"
MarkerOp(k, op, v) == [key |-> k, val |-> v, op |-> op]

\* marker.evaluate(env) raises (packaging.markers.UndefinedComparison): the
\* operator ~= is applied to two strings that are not versions
MarkerRaises(marker, env) == "op" \in DOMAIN marker /\ marker.op = "~="

\* marker.evaluate(env): a marker on "extra" compares with the joined extras;
\* FALSE stands for no value when the evaluation raises
MarkerEvaluate(marker, env) ==
    IF MarkerRaises(marker, env) THEN FALSE
    ELSE IF marker.key = "extra"
    THEN env.extra = (IF marker.val = "" THEN {} ELSE {marker.val})
    ELSE env[marker.key] = marker.val

\* a relevance test that asks for the marker to hold in every environment
IsRequirementRelevantAll(requirement, envs, extras) ==
    IF requirement.marker = NoMarker THEN TRUE
    ELSE IF envs = <<>> THEN TRUE
    ELSE \A i \in 1..Len(envs) :
            MarkerEvaluate(requirement.marker, IF extras # {} THEN [envs[i] EXCEPT !.extra = extras] ELSE envs[i])

\* utils.is_requirement_relevant raises: the loop reaches an environment in which
\* the evaluation raises before one in which the marker holds
IsRequirementRelevantRaises(requirement, envs, extras) ==
    /\ requirement.marker # NoMarker
    /\ \E i \in 1..Len(envs) :
           /\ MarkerRaises(requirement.marker, envs[i])
           /\ \A j \in 1..(i - 1) :
                  ~MarkerEvaluate(requirement.marker, IF extras # {} THEN [envs[j] EXCEPT !.extra = extras] ELSE envs[j])

\* utils.is_requirement_relevant: the value returned when it does not raise
IsRequirementRelevant(requirement, envs, extras) ==
    IF requirement.marker = NoMarker THEN TRUE
    ELSE IF envs = <<>> THEN TRUE
    ELSE \E i \in 1..Len(envs) :
            MarkerEvaluate(requirement.marker, IF extras # {} THEN [envs[i] EXCEPT !.extra = extras] ELSE envs[i])

(***************************************************************************)
(* The processed-requirement cache (utils.Cache).                          *)
(***************************************************************************)
\* Cache.is_simple_case
IsSimpleCase(req) ==
    /\ req.marker = NoMarker
    /\ req.extras = {}
    /\ \A spec \in req.specifier : spec[1] \in {">", ">="}

\* the string req.name, which is also str() of the bare requirement
NameKey(n) == Str(Req(n, {}, NoMarker, {}))

\* the key Cache.check and Cache.add use for req
CacheKey(req) == IF IsSimpleCase(req) THEN NameKey(req.name) ELSE Str(req)

\* a check that looks every requirement up by str(req)
CacheCheckFull(c, req) == Str(req) \in c

\* Cache.check
CacheCheck(c, req) == CacheKey(req) \in c

\* an add that records simple-case requirements only
CacheAddSimpleOnly(c, req) == IF IsSimpleCase(req) THEN c \cup {NameKey(req.name)} ELSE c

\* an add that records nothing
CacheAddNothing(c, req) == c

\* Cache.add
CacheAdd(c, req) == c \cup {CacheKey(req)}

(***************************************************************************)
(* Files of the index listing.                                             *)
(*   ext, parsed, version, tags   what the filename parses to              *)
(*   requires_python              sequence of clauses, <<>> when absent    *)
(*   hashes                       sequence of <<algorithm, digest>>        *)
(*   has_version, is_wheel        keys set by the mirrorer while parsing   *)
(***************************************************************************)
\* an interpreter tag: its non-digit prefix and its digits, "cp311" = cp, <<3,1,1>>
Interp(n, d) == [name |-> n, digits |-> d]

Tag(i, p) == [interpreter |-> i, platform |-> p]

\* one clause of requires-python: operator ("" when bare), major, minor (-1 when
\* absent) and whether it ends in ".*" or "*"
Clause(op, major, minor, star) == [op |-> op, major |-> major, minor |-> minor, star |-> star]

\* the interpreter version None
NoVer == [major |-> -1, minor |-> -1]

\* parse_interpreter: (name, version), version <major> or <major>.<minor> or None
ParseInterpreter(inp) ==
    LET d == inp.digits
    IN IF d = <<>> \/ inp.name = "" THEN [name |-> inp.name, ver |-> NoVer]
       ELSE [name |-> inp.name,
             ver  |-> [major |-> d[1],
                       minor |-> IF Len(d) = 1 THEN -1
                                 ELSE IF Len(d) = 2 THEN d[2]
                                 ELSE d[2] * 10 + d[3]]]

\* the value of a <major>[.<minor>] version on the scale of python versions
VerNum(v) == v.major * 100 + (IF v.minor < 0 THEN 0 ELSE v.minor)

\* requires-python after  req.isdigit() -> "==" + req  and the '*' repair
RepairRequiresPython(req) ==
    LET isdigit == Len(req) = 1 /\ req[1].op = "" /\ req[1].minor < 0 /\ ~req[1].star
        r1 == IF isdigit THEN <<[req[1] EXCEPT !.op = "=="]>> ELSE req
    IN [i \in 1..Len(r1) |-> [r1[i] EXCEPT !.star = FALSE]]

\* packaging.specifiers.SpecifierSet(req) raises InvalidSpecifier
InvalidSpecifier(req) == \E i \in 1..Len(req) : req[i].op \notin {">=", ">", "<=", "<", "==", "!="} \/ req[i].star

\* SpecifierSet(req).contains(python_version)
RequiresPythonContains(req, pv) == \A i \in 1..Len(req) : SpecContains(<<req[i].op, VerNum(req[i])>>, pv)

\* the loop over fileinfo["tags"] from tag i on: "T" accept, "F" reject, "E" ValueError
RECURSIVE MatchTags(_, _, _, _)
MatchTags(tags, i, supported_pyversions, supported_platforms) ==
    IF i > Len(tags) THEN "F"
    ELSE LET p == ParseInterpreter(tags[i].interpreter)
             rest == MatchTags(tags, i + 1, supported_pyversions, supported_platforms)
             intrp_ver_matched == \E k \in 1..Len(supported_pyversions) : supported_pyversions[k] >= VerNum(p.ver)
         IN IF p.name \notin {"py", "cp"} THEN rest
            ELSE IF p.ver = NoVer THEN "E"
            ELSE IF p.ver # [major |-> 3, minor |-> -1] /\ ~intrp_ver_matched THEN rest
            ELSE IF tags[i].platform.name = "any" THEN "T"
            ELSE IF \E k \in 1..Len(supported_platforms) : tags[i].platform.name \in supported_platforms[k] THEN "T"
            ELSE rest

\* a match on the tags alone, without the requires-python check of lines 427-450
MatchesEnvironmentsNoPython(fileinfo, supported_pyversions, supported_platforms) ==
    IF fileinfo.tags # <<>> THEN MatchTags(fileinfo.tags, 1, supported_pyversions, supported_platforms)
    ELSE "T"

\* Mirrorer._matches_environments: "T", "F", or "E" when it raises ValueError
MatchesEnvironments(fileinfo, supported_pyversions, supported_platforms) ==
    LET req == RepairRequiresPython(fileinfo.requires_python)
    IN IF fileinfo.requires_python # <<>> /\ InvalidSpecifier(req) THEN "F"
       ELSE IF fileinfo.requires_python # <<>> /\ \E k \in 1..Len(supported_pyversions) : ~RequiresPythonContains(req, supported_pyversions[k]) THEN "F"
       ELSE IF fileinfo.tags # <<>> THEN MatchTags(fileinfo.tags, 1, supported_pyversions, supported_platforms)
       ELSE "T"

(***************************************************************************)
(* Sorting: list.sort(key=..., reverse=True) is stable, equal keys keep    *)
(* their order.  A list is sorted as a sequence of <<key, element>> pairs. *)
(***************************************************************************)
InsertDesc(r, x) ==
    LET n == Cardinality({i \in 1..Len(r) : r[i][1] >= x[1]})
    IN SubSeq(r, 1, n) \o <<x>> \o SubSeq(r, n + 1, Len(r))

RECURSIVE SortPairsDesc(_)
SortPairsDesc(s) ==
    IF s = <<>> THEN <<>>
    ELSE InsertDesc(SortPairsDesc(SubSeq(s, 1, Len(s) - 1)), s[Len(s)])

Unpair(s) == [i \in 1..Len(s) |-> s[i][2]]

\* Mirrorer._sort_files_by_version
SortFilesByVersion(files) == Unpair(SortPairsDesc([i \in 1..Len(files) |-> <<files[i].version, files[i]>>]))

(***************************************************************************)
(* The file filter (Mirrorer._filter_files and its steps).  cfg holds the  *)
(* Mirrorer's settings: package_type_regex (the set of extensions the      *)
(* regex matches), mirror_all_wheels, mirror_all_versions, pyversions and  *)
(* platforms.                                                              *)
(***************************************************************************)
\* Mirrorer._parse_and_filter_files_by_extension
ParseAndFilterFilesByExtension(cfg, files) == SelectSeq(files, LAMBDA f : f.ext \in cfg.package_type_regex)

\* one iteration of Mirrorer._parse_version_and_tags_in_files
ParseVersionAndTags(f) ==
    IF f.ext = "whl"
    THEN IF f.parsed THEN [f EXCEPT !.has_version = TRUE, !.is_wheel = TRUE] ELSE f
    ELSE IF f.ext \in {"tar.gz", "zip"}
    THEN IF f.parsed THEN [f EXCEPT !.has_version = TRUE, !.is_wheel = FALSE, !.tags = <<>>] ELSE f
    ELSE f

\* Mirrorer._parse_version_and_tags_in_files
ParseVersionAndTagsInFiles(files) == [i \in 1..Len(files) |-> ParseVersionAndTags(files[i])]

\* a validity filter that looks at the version key alone, not at yanked
FilterFilesKeepYanked(files) == SelectSeq(files, LAMBDA f : f.has_version)

\* Mirrorer._filter_files_for_valid_versions
FilterFilesForValidVersions(files) == SelectSeq(files, LAMBDA f : f.has_version /\ ~f.yanked)

\* a specifier filter that returns its input, as for specifier None
FilterByRequirementNone(files, requirement) == files

\* Mirrorer._filter_by_requirement
FilterByRequirement(files, requirement) == SelectSeq(files, LAMBDA f : SpecifierContains(requirement.specifier, f.version))

\* the platform score of one tag in Mirrorer._calculate_scores_for_wheel
PlatformScore(platform) ==
    IF platform.ab # <<>> THEN platform.ab[1] * 100 + platform.ab[2]
    ELSE IF platform.legacy = "manylinux2014" THEN 90
    ELSE IF platform.legacy = "manylinux2010" THEN 80
    ELSE IF platform.legacy = "manylinux1" THEN 70
    ELSE 0

\* the pair (py_score, platform_score) as one number, ordered as the pair is
ScoreNum(py_score, platform_score) == py_score * 100000 + platform_score

\* Mirrorer._calculate_scores_for_wheel, for a wheel: the maximum over its tags
CalculateScoresForWheel(file) ==
    LET scores == {ScoreNum(VerNum(ParseInterpreter(file.tags[i].interpreter).ver), PlatformScore(file.tags[i].platform)) :
                     i \in {j \in 1..Len(file.tags) :
                              /\ ParseInterpreter(file.tags[j].interpreter).name \in {"cp", "py"}
                              /\ ParseInterpreter(file.tags[j].interpreter).ver # NoVer}}
    IN IF scores = {} THEN 0 ELSE CHOOSE m \in scores : \A x \in scores : x <= m

\* Mirrorer._find_first_matching_file_for_env: the index of the first matching
\* file from i on, 0 for None, -1 when _matches_environments raises before a match
RECURSIVE FindFirstMatchingFileForEnv(_, _, _, _)
FindFirstMatchingFileForEnv(files, i, python_version, platform_pattern) ==
    IF i > Len(files) THEN 0
    ELSE LET m == MatchesEnvironments(files[i], <<python_version>>, <<platform_pattern>>)
         IN IF m = "T" THEN i
            ELSE IF m = "E" THEN -1
            ELSE FindFirstMatchingFileForEnv(files, i + 1, python_version, platform_pattern)

\* the cells (python_version, platform_pattern) of the environment grid in loop order
Cells(cfg) == [k \in 1..(Len(cfg.pyversions) * Len(cfg.platforms)) |->
                 <<cfg.pyversions[((k - 1) \div Len(cfg.platforms)) + 1], cfg.platforms[((k - 1) % Len(cfg.platforms)) + 1]>>]

\* selected_files with file i of fs appended when there is one (i > 0) and it
\* is not yet in selected_files
AppendIfNew(selected_files, fs, i) ==
    IF i > 0
    THEN IF fs[i] \in Range(selected_files) THEN selected_files ELSE Append(selected_files, fs[i])
    ELSE selected_files

\* the loops of Mirrorer._select_best_files_for_version from cell k on, with the
\* files selected so far; [raise, files].  SelectCell is the body of the loops
\* for cell k, given the indexes a and b of the best sdist and the best wheel
RECURSIVE SelectLoop(_, _, _, _, _), SelectCell(_, _, _, _, _, _, _)
SelectCell(cells, k, non_wheels, wheels, selected_files, a, b) ==
    IF a < 0 \/ b < 0 THEN [raise |-> TRUE, files |-> <<>>]
    ELSE SelectLoop(cells, k + 1, non_wheels, wheels, AppendIfNew(AppendIfNew(selected_files, non_wheels, a), wheels, b))

SelectLoop(cells, k, non_wheels, wheels, selected_files) ==
    IF k > Len(cells) THEN [raise |-> FALSE, files |-> selected_files]
    ELSE SelectCell(cells, k, non_wheels, wheels, selected_files,
                    FindFirstMatchingFileForEnv(non_wheels, 1, cells[k][1], cells[k][2]),
                    FindFirstMatchingFileForEnv(wheels, 1, cells[k][1], cells[k][2]))

\* a selection that leaves the wheels in index order, without the sort of line 371
SelectBestFilesUnsorted(cfg, version_files) ==
    SelectLoop(Cells(cfg), 1, SelectSeq(version_files, LAMBDA f : ~f.is_wheel), SelectSeq(version_files, LAMBDA f : f.is_wheel), <<>>)

\* Mirrorer._select_best_files_for_version
SelectBestFilesForVersion(cfg, version_files) ==
    LET wheels0 == SelectSeq(version_files, LAMBDA f : f.is_wheel)
        non_wheels == SelectSeq(version_files, LAMBDA f : ~f.is_wheel)
        wheels == Unpair(SortPairsDesc([i \in 1..Len(wheels0) |-> <<CalculateScoresForWheel(wheels0[i]), wheels0[i]>>]))
    IN SelectLoop(Cells(cfg), 1, non_wheels, wheels, <<>>)

\* Mirrorer._group_files_by_version: the versions in order of first appearance
GroupVersions(files) == Dedup([i \in 1..Len(files) |-> files[i].version])

\* the loop of Mirrorer._filter_files_by_environment over the groups from g on;
\* SelectGroup is its body for group g, given the best files of that version
RECURSIVE SelectGroups(_, _, _, _, _), SelectGroup(_, _, _, _, _, _)
SelectGroup(cfg, files, versions, g, selected_files, best) ==
    IF best.raise THEN best
    ELSE SelectGroups(cfg, files, versions, g + 1, selected_files \o best.files)

SelectGroups(cfg, files, versions, g, selected_files) ==
    IF g > Len(versions) THEN [raise |-> FALSE, files |-> selected_files]
    ELSE SelectGroup(cfg, files, versions, g, selected_files,
                     SelectBestFilesForVersion(cfg, SelectSeq(files, LAMBDA f : f.version = versions[g])))

\* self._sort_files_by_version(selected_files) at the end of _filter_files_by_environment
SortSelected(r) == IF r.raise THEN r ELSE [raise |-> FALSE, files |-> SortFilesByVersion(r.files)]

\* an environment filter that with mirror_all_wheels keeps the matching
\* wheels only and drops the source distributions
FilterFilesByEnvironmentWheelsOnly(cfg, files) ==
    IF cfg.mirror_all_wheels
    THEN IF \E i \in 1..Len(files) : MatchesEnvironments(files[i], cfg.pyversions, cfg.platforms) = "E"
         THEN [raise |-> TRUE, files |-> <<>>]
         ELSE [raise |-> FALSE,
               files |-> SelectSeq(files, LAMBDA f : f.is_wheel /\ MatchesEnvironments(f, cfg.pyversions, cfg.platforms) = "T")]
    ELSE SortSelected(SelectGroups(cfg, files, GroupVersions(files), 1, <<>>))

\* Mirrorer._filter_files_by_environment; [raise, files]
FilterFilesByEnvironment(cfg, files) ==
    IF cfg.mirror_all_wheels
    THEN IF \E i \in 1..Len(files) : MatchesEnvironments(files[i], cfg.pyversions, cfg.platforms) = "E"
         THEN [raise |-> TRUE, files |-> <<>>]
         ELSE [raise |-> FALSE, files |-> SelectSeq(files, LAMBDA f : MatchesEnvironments(f, cfg.pyversions, cfg.platforms) = "T")]
    ELSE SortSelected(SelectGroups(cfg, files, GroupVersions(files), 1, <<>>))

\* a version strategy that keeps every version for every caller
FilterFilesByVersionStrategyAll(cfg, files, required_by) == files

\* Mirrorer._filter_files_by_version_strategy
FilterFilesByVersionStrategy(cfg, files, required_by) ==
    IF cfg.mirror_all_versions /\ required_by = NoReq THEN files
    ELSE SelectSeq(files, LAMBDA f : f.version = files[1].version)

\* the result None of Mirrorer._filter_files
FilterNone == [status |-> "none", files |-> <<>>]

\* Mirrorer._filter_files from the environment filter's result f5 on
FilterFilesFromEnvironment(cfg, required_by, f5) ==
    IF f5.raise THEN [status |-> "raise", files |-> <<>>]
    ELSE IF f5.files = <<>> THEN FilterNone
    ELSE [status |-> "ok", files |-> FilterFilesByVersionStrategy(cfg, f5.files, required_by)]

\* Mirrorer._filter_files from the specifier filter's result f4 on
FilterFilesFromRequirement(cfg, required_by, f4) ==
    IF f4 = <<>> THEN FilterNone
    ELSE FilterFilesFromEnvironment(cfg, required_by, FilterFilesByEnvironment(cfg, f4))

\* Mirrorer._filter_files from the valid files f3 on
FilterFilesFromValid(cfg, requirement, required_by, f3) ==
    IF f3 = <<>> THEN FilterNone
    ELSE FilterFilesFromRequirement(cfg, required_by, FilterByRequirement(SortFilesByVersion(f3), requirement))

\* Mirrorer._filter_files: status "ok" with the selected files, "none" for None,
\* "raise" when an exception leaves it
FilterFiles(cfg, requirement, required_by, files) ==
    FilterFilesFromValid(cfg, requirement, required_by,
                         FilterFilesForValidVersions(ParseVersionAndTagsInFiles(ParseAndFilterFilesByExtension(cfg, files))))

(***************************************************************************)
(* Digests and the download (Mirrorer._hash_file, Mirrorer._download_file).*)
(* A byte content is a number: Empty is the empty file, Garbage stands for *)
(* bytes that are not the published ones.  A path that does not exist has  *)
(* content Absent.                                                         *)
(***************************************************************************)
Absent == -1

Empty == 0

Garbage == 1

\* hashlib.new(alg).update(contents).hexdigest(); the moduli are model choices
\* that keep the function injective on the contents of the model
Digest(alg, contents) ==
    IF alg = "sha256" THEN (contents * 7 + 3) % 101
    ELSE (contents * 11 + 5) % 103

(***************************************************************************)
(* The remote index and the configuration the runs are checked on.         *)
(***************************************************************************)
\* one entry of the "files" list of an index response
File(filename, ext, parsed, version, tags, requires_python, yanked, hashes) ==
    [filename |-> filename, ext |-> ext, parsed |-> parsed, version |-> version, tags |-> tags,
     requires_python |-> requires_python, yanked |-> yanked, hashes |-> hashes,
     upload_time |-> 7, has_version |-> FALSE, is_wheel |-> FALSE]

ReqFoo == Req("foo", {}, NoMarker, {})

ReqBarGe1 == Req("bar", {<<">=", 1>>}, NoMarker, {})

ReqBarGe3 == Req("bar", {<<">=", 3>>}, NoMarker, {})

ReqFooGe2 == Req("foo", {<<">=", 2>>}, NoMarker, {})

ReqBazLt1 == Req("baz", {<<"<", 1>>}, NoMarker, {})

ReqBaz == Req("baz", {}, NoMarker, {})

ReqBazWin == Req("baz", {}, Marker("sys_platform", "win32"), {})

ReqQux == Req("qux", {}, NoMarker, {})

ReqOld == Req("old", {}, NoMarker, {})

\* the bytes the index serves for each file
Served(filename) ==
    CASE filename = "foo-1.tar.gz" -> 2
      [] filename = "foo-2.tar.gz" -> 3
      [] filename = "foo-2-cp310-cp310-manylinux_2_17_x86_64.whl" -> 4
      [] filename = "bar-1.tar.gz" -> 5
      [] filename = "bar-2-py3-none-any.whl" -> 6
      [] OTHER -> 7

\* the Requires-Dist lines of the metadata inside each file
RequiresDist(filename) ==
    CASE filename = "foo-1.tar.gz" -> <<ReqBarGe1>>
      [] filename = "foo-2.tar.gz" -> <<ReqBazLt1, ReqBarGe1, ReqOld>>
      [] filename = "foo-2-cp310-cp310-manylinux_2_17_x86_64.whl" -> <<ReqBarGe1>>
      [] filename = "bar-1.tar.gz" -> <<ReqFooGe2>>
      [] filename = "bar-2-py3-none-any.whl" -> <<ReqFooGe2, ReqQux, ReqBaz>>
      [] OTHER -> <<>>

\* whether the served bytes open as an archive (zipfile.ZipFile / tarfile.open)
ArchiveOpens(filename) == filename # "foo-2-cp310-cp310-manylinux_2_17_x86_64.whl"

Sha(filename) == <<"sha256", Digest("sha256", Served(filename))>>

Md5(filename) == <<"md5", Digest("md5", Served(filename))>>

\* data["files"] of the index response for a package
IndexFiles(name) ==
    CASE name = "foo" ->
           << File("foo-1.tar.gz", "tar.gz", TRUE, 1, <<>>, <<>>, FALSE, <<Sha("foo-1.tar.gz")>>),
              File("foo-2.tar.gz", "tar.gz", TRUE, 2, <<>>, <<Clause(">=", 3, 9, FALSE)>>, FALSE, <<Sha("foo-2.tar.gz"), Md5("foo-2.tar.gz")>>),
              File("foo-2-cp310-cp310-manylinux_2_17_x86_64.whl", "whl", TRUE, 2, <<Tag(Interp("cp", <<3, 1, 0>>), PlatLinux217)>>, <<>>, FALSE,
                   <<Sha("foo-2-cp310-cp310-manylinux_2_17_x86_64.whl")>>) >>
      [] name = "bar" ->
           << File("bar-1.tar.gz", "tar.gz", TRUE, 1, <<>>, <<>>, FALSE, <<Sha("bar-1.tar.gz")>>),
              File("bar-2-py3-none-any.whl", "whl", TRUE, 2, <<Tag(Interp("py", <<3>>), PlatAny)>>, <<>>, FALSE, <<Sha("bar-2-py3-none-any.whl")>>) >>
      [] name = "baz" ->
           << File("baz-1.tar.gz", "tar.gz", TRUE, 1, <<>>, <<>>, FALSE, <<Md5("baz-1.tar.gz")>>) >>
      [] name = "qux" ->
           << File("qux-1-py3-none-win_amd64.whl", "whl", TRUE, 1, <<Tag(Interp("py", <<3>>), PlatWin)>>, <<>>, FALSE,
                   <<Sha("qux-1-py3-none-win_amd64.whl")>>) >>
      [] name = "old" ->
           << File("old-2004d.tar.gz", "tar.gz", FALSE, 0, <<>>, <<>>, FALSE, <<Sha("old-2004d.tar.gz")>>) >>
      [] OTHER -> <<>>

\* the index response for a package: meta.api-version (major, 0 when empty) and files
IndexEntry(name) == [api_major |-> 1, files_is_list |-> TRUE, files |-> IndexFiles(name)]

\* json.load(response) when the request succeeds with outcome net: the entry,
\* or one with another api-version, an empty api-version, or no list of files
IndexResponse(name, net) ==
    [IndexEntry(name) EXCEPT !.api_major = IF net = "api2" THEN 2 ELSE IF net = "noversion" THEN 0 ELSE @,
                             !.files_is_list = net # "nolist"]

\* an index check that accepts every response
IndexAcceptedAlways(data) == TRUE

\* Mirrorer._mirror, lines 183-195: the response passes the checks of the
\* api-version and of the files field
IndexAccepted(data) ==
    /\ (IF data.api_major = 0 THEN 1 ELSE data.api_major) = 1
    /\ data.files_is_list

Packages == {"foo", "bar", "baz", "qux", "old"}

Filenames == UNION {{IndexFiles(n)[i].filename : i \in 1..Len(IndexFiles(n))} : n \in Packages}

\* the index entry of a file name
FileInfo(filename) == CHOOSE f \in UNION {Range(IndexFiles(n)) : n \in Packages} : f.filename = filename

\* the [env.*] sections of the configuration
Envs == << Env(310, 0, "linux", "x86_64", {}), Env(311, 0, "linux", "x86_64", {}) >>

\* the [requirements] block, one requirement string per traversal, in file order
TopReqs == << ReqFoo, ReqBarGe3, ReqBazWin, ReqBazWin >>

\* the Mirrorer's settings for the flags -W and -a
Config(all_wheels, all_versions) ==
    [package_type_regex |-> {"whl", "zip", "tar.gz"}, mirror_all_wheels |-> all_wheels, mirror_all_versions |-> all_versions,
     pyversions |-> SupportedPyversions(Envs), platforms |-> SupportedPlatforms(Envs)]

\* the content of a missing <target>.hash
NoSidecar == [alg |-> "", hex |-> -1]

\* the state of one target path: the file, its .hash sidecar and its mtime
\* (0: the time of the last write, otherwise the stamped upload time)
NoTarget == [content |-> Absent, sidecar |-> NoSidecar, mtime |-> 0]

\* fileinfo["hashes"][hashalg]
Exphash(fileinfo, hashalg) == fileinfo.hashes[CHOOSE i \in 1..Len(fileinfo.hashes) : fileinfo.hashes[i][1] = hashalg][2]

\* utils.touch_file on an existing path
TouchFile(t, fileinfo) == IF fileinfo.upload_time = 0 THEN t ELSE [t EXCEPT !.mtime = fileinfo.upload_time]

\* Mirrorer._hash_file on an existing path: the sidecar is written, the digest returned
HashFileWrites(t, hashalg) == [t EXCEPT !.sidecar = [alg |-> hashalg, hex |-> Digest(hashalg, t.content)]]

\* the outcomes of opening and reading the file URL
NetFile == {"good", "corrupt", "openfail", "readfail"}

\* a download without the comparison of lines 606-613
DownloadFileNoVerify(t, fileinfo, hashalg, net) ==
    LET exphash == Exphash(fileinfo, hashalg)
        t1 == IF t.content # Absent THEN HashFileWrites(t, hashalg) ELSE t
        served == IF net = "good" THEN Served(fileinfo.filename) ELSE Garbage
        t2 == HashFileWrites([t1 EXCEPT !.content = served, !.mtime = 0], hashalg)
    IN IF t.content # Absent /\ Digest(hashalg, t.content) = exphash
       THEN [result |-> "returned", opened |-> FALSE, target |-> TouchFile(t1, fileinfo)]
       ELSE IF net = "openfail" THEN [result |-> "urlerror", opened |-> TRUE, target |-> t1]
       ELSE IF net = "readfail" THEN [result |-> "urlerror", opened |-> TRUE, target |-> [t1 EXCEPT !.content = Empty, !.mtime = 0]]
       ELSE [result |-> "returned", opened |-> TRUE, target |-> TouchFile(t2, fileinfo)]

\* a download without the check of the existing target, lines 595-599
DownloadFileAlways(t, fileinfo, hashalg, net) ==
    LET exphash == Exphash(fileinfo, hashalg)
        served == IF net = "good" THEN Served(fileinfo.filename) ELSE Garbage
        t2 == HashFileWrites([t EXCEPT !.content = served, !.mtime = 0], hashalg)
    IN IF net = "openfail" THEN [result |-> "urlerror", opened |-> TRUE, target |-> t]
       ELSE IF net = "readfail" THEN [result |-> "urlerror", opened |-> TRUE, target |-> [t EXCEPT !.content = Empty, !.mtime = 0]]
       ELSE IF Digest(hashalg, served) # exphash THEN [result |-> "mismatch", opened |-> TRUE, target |-> [t2 EXCEPT !.content = Absent, !.mtime = 0]]
       ELSE [result |-> "returned", opened |-> TRUE, target |-> TouchFile(t2, fileinfo)]

\* a download that raises on a mismatch without os.remove(target)
DownloadFileKeepsMismatch(t, fileinfo, hashalg, net) ==
    LET exphash == Exphash(fileinfo, hashalg)
        t1 == IF t.content # Absent THEN HashFileWrites(t, hashalg) ELSE t
        served == IF net = "good" THEN Served(fileinfo.filename) ELSE Garbage
        t2 == HashFileWrites([t1 EXCEPT !.content = served, !.mtime = 0], hashalg)
    IN IF t.content # Absent /\ Digest(hashalg, t.content) = exphash
       THEN [result |-> "returned", opened |-> FALSE, target |-> TouchFile(t1, fileinfo)]
       ELSE IF net = "openfail" THEN [result |-> "urlerror", opened |-> TRUE, target |-> t1]
       ELSE IF net = "readfail" THEN [result |-> "urlerror", opened |-> TRUE, target |-> [t1 EXCEPT !.content = Empty, !.mtime = 0]]
       ELSE IF Digest(hashalg, served) # exphash THEN [result |-> "mismatch", opened |-> TRUE, target |-> t2]
       ELSE [result |-> "returned", opened |-> TRUE, target |-> TouchFile(t2, fileinfo)]

\* Mirrorer._download_file on target state t with network outcome net:
\*   result  "returned", "mismatch" (ValueError) or "urlerror" (urlopen or read raised)
\*   opened  whether the file URL was opened
\*   target  the state of the target path afterwards
DownloadFile(t, fileinfo, hashalg, net) ==
    LET exphash == Exphash(fileinfo, hashalg)
        \* the target exists: _hash_file(target) writes the sidecar
        t1 == IF t.content # Absent THEN HashFileWrites(t, hashalg) ELSE t
        served == IF net = "good" THEN Served(fileinfo.filename) ELSE Garbage
        \* open(target, "wb"); out.write(inp.read()); _hash_file(target)
        t2 == HashFileWrites([t1 EXCEPT !.content = served, !.mtime = 0], hashalg)
    IN IF t.content # Absent /\ Digest(hashalg, t.content) = exphash
       THEN [result |-> "returned", opened |-> FALSE, target |-> TouchFile(t1, fileinfo)]
       \* urlopen raises: the target is left as it was
       ELSE IF net = "openfail" THEN [result |-> "urlerror", opened |-> TRUE, target |-> t1]
       \* inp.read() raises after open(target, "wb") has truncated the target
       ELSE IF net = "readfail" THEN [result |-> "urlerror", opened |-> TRUE, target |-> [t1 EXCEPT !.content = Empty, !.mtime = 0]]
       \* os.remove(target); raise ValueError
       ELSE IF Digest(hashalg, served) # exphash THEN [result |-> "mismatch", opened |-> TRUE, target |-> [t2 EXCEPT !.content = Absent, !.mtime = 0]]
       ELSE [result |-> "returned", opened |-> TRUE, target |-> TouchFile(t2, fileinfo)]

(***************************************************************************)
(* Dictionaries keyed by str(requirement), in insertion order: sequences   *)
(* of [requirement, required_by] without two entries for one requirement.  *)
(***************************************************************************)
\* d[str(e.requirement)] = e
DictPut(d, e) ==
    IF \E i \in 1..Len(d) : Str(d[i].requirement) = Str(e.requirement)
    THEN [i \in 1..Len(d) |-> IF Str(d[i].requirement) = Str(e.requirement) THEN e ELSE d[i]]
    ELSE Append(d, e)

\* d.update(d2)
RECURSIVE DictUpdate(_, _)
DictUpdate(d, d2) == IF d2 = <<>> THEN d ELSE DictUpdate(DictPut(d, d2[1]), Tail(d2))

\* metadata.MetadataParser.dependencies(extras, envs): the Requires-Dist
\* requirements relevant for at least one environment under the extras
Dependencies(filename, extras, envs) == SelectSeq(RequiresDist(filename), LAMBDA r : IsRequirementRelevant(r, envs, extras))

\* the dictionary Mirrorer._process_file builds from the dependencies
FileDeps(requirement, filename, envs) ==
    LET deps == Dependencies(filename, requirement.extras, envs)
    IN DictUpdate(<<>>, [i \in 1..Len(deps) |-> [requirement |-> deps[i], required_by |-> requirement]])

(***************************************************************************)
(* The state.                                                              *)
(***************************************************************************)
VARIABLES
    run,            \* the number of the current run of mirror(args)
    cfg,            \* the Mirrorer's settings
    pc,             \* "top": mirror(args) between traversals; "batch": Mirrorer.mirror
                    \* between dependencies; "files": Mirrorer._mirror in its loop
                    \* over the selected files; "done"; "aborted": an exception left mirror(args)
    topIdx,         \* the next requirement of the [requirements] block
    cache,          \* self._processed_pkgs.cache
    disk,           \* the target paths under index_path: file, .hash sidecar, mtime
    requirement,    \* _mirror: the requirement being mirrored
    required_by,    \* _mirror: its parent, NoReq for None
    files,          \* _mirror: the selected files not yet processed
    depdict,        \* _mirror: the dependencies collected so far
    deps,           \* mirror: the current batch
    depPos,         \* mirror: the position in the batch
    next_deps,      \* mirror: the next batch
    ev,             \* what the last step did (printed output, calls made)
    indexRequests,  \* index requests issued in this run, per package
    fileRequests,   \* file URLs opened in this run, per file
    selected,       \* names of the files selected by _filter_files in this run
    enqueued,       \* dependencies _process_file returned in this run
    loggedSkipped,  \* requirements printed as "Skipping ..." in this run
    frameSelected,  \* _mirror: the files selected for the current requirement
    frameTried,     \* _mirror: the files of the current requirement processed so far,
                    \* each with the result of _process_file
    processedLog,   \* the requirements _mirror has processed to its end in this run, in order
    prev,           \* the target paths as the previous run left them
    started,        \* the arguments of the calls m.mirror(...) of mirror(args) in this run, in order
    options,        \* the dictionary of the section configparser is reading
    paths           \* HashCache.paths: the paths whose digest was verified

vars == <<run, cfg, pc, topIdx, cache, disk, requirement, required_by, files, depdict, deps, depPos, next_deps,
          ev, indexRequests, fileRequests, selected, enqueued, loggedSkipped, frameSelected, frameTried, processedLog, prev,
          started, options, paths>>

frame == <<requirement, required_by, files, depdict, frameSelected, frameTried>>

Event(kind, req, rby, filename, result) == [kind |-> kind, req |-> req, required_by |-> rby, filename |-> filename, result |-> result]

Count(n) == IF n < CountCap THEN n + 1 ELSE n

\* the outcomes of the index request
NetIndex == {"ok", "http404", "http500", "urlerror", "api2", "noversion", "nolist"}

Init ==
    /\ run = 1
    /\ cfg \in {Config(w, a) : w \in BOOLEAN, a \in BOOLEAN}
    /\ pc = "top"
    /\ topIdx = 1
    /\ cache = {}
    /\ disk = [f \in Filenames |-> NoTarget]
    /\ requirement = NoReq
    /\ required_by = NoReq
    /\ files = <<>>
    /\ depdict = <<>>
    /\ deps = <<>>
    /\ depPos = 0
    /\ next_deps = <<>>
    /\ ev = Event("init", NoReq, NoReq, "", "")
    /\ indexRequests = [n \in Packages |-> 0]
    /\ fileRequests = [f \in Filenames |-> 0]
    /\ selected = {}
    /\ enqueued = {}
    /\ loggedSkipped = {}
    /\ frameSelected = <<>>
    /\ frameTried = <<>>
    /\ processedLog = <<>>
    /\ prev = [f \in Filenames |-> NoTarget]
    /\ started = <<>>
    /\ options = <<>>
    /\ paths = {}

\* next_deps = more_deps in place of next_deps.update(more_deps)
NextDepsReplace(nd, more_deps) == more_deps

\* Mirrorer.mirror: if more_deps: next_deps.update(more_deps)
NextDeps(nd, more_deps) == DictUpdate(nd, more_deps)

\* a batch loop that never moves on to the next dependency
ReturnToMirrorStuck(rby, ret) ==
    IF rby = NoReq
    THEN IF ret = <<>>
         THEN pc' = "top" /\ topIdx' = topIdx + 1 /\ deps' = <<>> /\ depPos' = 0 /\ next_deps' = <<>>
         ELSE pc' = "batch" /\ deps' = ret /\ depPos' = 1 /\ next_deps' = <<>> /\ UNCHANGED topIdx
    ELSE pc' = "batch" /\ next_deps' = NextDeps(next_deps, ret) /\ UNCHANGED <<deps, depPos, topIdx>>

\* Mirrorer.mirror after self._mirror returned ret (<<>> for None or {}) for a
\* requirement with parent rby: the call of line 101 when rby is None,
\* the call of the batch loop otherwise
ReturnToMirror(rby, ret) ==
    IF rby = NoReq
    THEN IF ret = <<>>
         THEN pc' = "top" /\ topIdx' = topIdx + 1 /\ deps' = <<>> /\ depPos' = 0 /\ next_deps' = <<>>
         ELSE pc' = "batch" /\ deps' = ret /\ depPos' = 1 /\ next_deps' = <<>> /\ UNCHANGED topIdx
    ELSE LET nd == NextDeps(next_deps, ret)
         IN IF depPos < Len(deps)
            THEN pc' = "batch" /\ depPos' = depPos + 1 /\ next_deps' = nd /\ UNCHANGED <<deps, topIdx>>
            ELSE IF nd = <<>>
            THEN pc' = "top" /\ topIdx' = topIdx + 1 /\ deps' = <<>> /\ depPos' = 0 /\ next_deps' = <<>>
            ELSE pc' = "batch" /\ deps' = nd /\ depPos' = 1 /\ next_deps' = <<>> /\ UNCHANGED topIdx

\* an except clause for every exception of the top-level call
CatchAll(rby, kind) == rby = NoReq

\* no except clause around the top-level call
CatchNone(rby, kind) == FALSE

\* Mirrorer.mirror: whether the exception of the given kind raised by
\* self._mirror is caught (except urllib.error.HTTPError around line 101)
Caught(rby, kind) == rby = NoReq /\ kind = "http_error"

\* an exception leaves self._mirror
RaiseToMirror(rby, kind) ==
    IF Caught(rby, kind)
    THEN pc' = "top" /\ topIdx' = topIdx + 1 /\ deps' = <<>> /\ depPos' = 0 /\ next_deps' = <<>>
    ELSE pc' = "aborted" /\ UNCHANGED <<topIdx, deps, depPos, next_deps>>

\* Mirrorer._mirror, lines 197-209: what the result r of _filter_files leads to
FilterOutcome(r) ==
    [kind |-> IF r.status = "raise" THEN "filter_raise" ELSE IF r.status = "none" THEN "no_files" ELSE "selected",
     files |-> r.files]

\* Mirrorer._mirror up to the loop over the files: what happens to req, and
\* the files selected for it
MirrorOutcome(c, cf, req, rby, net) ==
    IF CacheCheck(c, req) THEN [kind |-> "cached", files |-> <<>>]
    ELSE IF IsRequirementRelevantRaises(req, Envs, rby.extras) THEN [kind |-> "marker_error", files |-> <<>>]
    ELSE IF ~IsRequirementRelevant(req, Envs, rby.extras) THEN [kind |-> "irrelevant", files |-> <<>>]
    ELSE IF net \in {"http404", "http500"} THEN [kind |-> "http_error", files |-> <<>>]
    ELSE IF net = "urlerror" THEN [kind |-> "url_error", files |-> <<>>]
    ELSE IF ~IndexAccepted(IndexResponse(req.name, net)) THEN [kind |-> "bad_index", files |-> <<>>]
    ELSE FilterOutcome(FilterFiles(cf, req, rby, IndexResponse(req.name, net).files))

\* Mirrorer._mirror(req, required_by=rby) from its entry to the loop over the files
MirrorEnter(req, rby) ==
    \E net \in NetIndex : \E o \in {MirrorOutcome(cache, cfg, req, rby, net)} :
           /\ ev' = Event(o.kind, req, rby, "", IF o.kind \in {"cached", "irrelevant", "marker_error"} THEN "" ELSE net)
           /\ indexRequests' = IF o.kind \in {"cached", "irrelevant", "marker_error"} THEN indexRequests
                               ELSE [indexRequests EXCEPT ![req.name] = Count(@)]
           /\ cache' = IF o.kind = "irrelevant" THEN CacheAdd(cache, req) ELSE cache
           /\ loggedSkipped' = IF o.kind \in {"irrelevant", "no_files"} THEN loggedSkipped \cup {req} ELSE loggedSkipped
           /\ IF o.kind = "selected"
              THEN /\ pc' = "files"
                   /\ requirement' = req
                   /\ required_by' = rby
                   /\ files' = o.files
                   /\ depdict' = <<>>
                   /\ frameSelected' = o.files
                   /\ frameTried' = <<>>
                   /\ selected' = selected \cup {o.files[i].filename : i \in 1..Len(o.files)}
                   /\ UNCHANGED <<topIdx, deps, depPos, next_deps>>
              ELSE /\ UNCHANGED frame
                   /\ UNCHANGED selected
                   /\ IF o.kind \in {"cached", "irrelevant"} \/ (o.kind = "no_files" /\ rby # NoReq)
                      THEN ReturnToMirror(rby, <<>>)
                      ELSE RaiseToMirror(rby, o.kind)
           /\ UNCHANGED <<options, paths, run, cfg, disk, fileRequests, enqueued, processedLog, prev>>

\* mirror(args): m.mirror(...) for the next requirement of the block, up to
\* the first file of its top-level requirement
MirrorTop ==
    /\ pc = "top"
    /\ topIdx <= Len(TopReqs)
    /\ MirrorEnter(TopReqs[topIdx], NoReq)
    /\ started' = Append(started, TopReqs[topIdx])

\* Mirrorer.mirror: self._mirror for the next dependency of the batch
MirrorDep ==
    /\ pc = "batch"
    /\ MirrorEnter(deps[depPos].requirement, deps[depPos].required_by)
    /\ UNCHANGED started

\* Mirrorer._process_file: the digest algorithm; when sha256 is not offered the
\* expression fileinfo["hashes"].keys()[0] raises TypeError
HashAlg(fileinfo) ==
    IF \E i \in 1..Len(fileinfo.hashes) : fileinfo.hashes[i][1] = "sha256" THEN "sha256" ELSE "TypeError"

\* a _process_file that goes on to the metadata whatever _download_file did
ProcessFileUnchecked(t, req, fileinfo, net) ==
    LET hashalg == HashAlg(fileinfo)
        d == DownloadFile(t, fileinfo, hashalg, net)
    IN IF hashalg = "TypeError" THEN [result |-> "typeerror", opened |-> FALSE, target |-> t, deps |-> <<>>]
       ELSE IF ~ArchiveOpens(fileinfo.filename) THEN [result |-> "archive", opened |-> d.opened, target |-> d.target, deps |-> <<>>]
       ELSE [result |-> "ok", opened |-> d.opened, target |-> d.target, deps |-> FileDeps(req, fileinfo.filename, Envs)]

\* Mirrorer._process_file(req, fileinfo) on target state t:
\*   result  "ok", or the exception: "typeerror", "urlerror", "mismatch", "archive"
\*   deps    the dictionary returned (<<>> also for None)
ProcessFile(t, req, fileinfo, net) ==
    LET hashalg == HashAlg(fileinfo)
        d == DownloadFile(t, fileinfo, hashalg, net)
    IN IF hashalg = "TypeError" THEN [result |-> "typeerror", opened |-> FALSE, target |-> t, deps |-> <<>>]
       ELSE IF d.result # "returned" THEN [result |-> d.result, opened |-> d.opened, target |-> d.target, deps |-> <<>>]
       ELSE IF ~ArchiveOpens(fileinfo.filename) THEN [result |-> "archive", opened |-> d.opened, target |-> d.target, deps |-> <<>>]
       ELSE [result |-> "ok", opened |-> d.opened, target |-> d.target, deps |-> FileDeps(req, fileinfo.filename, Envs)]

\* the for loop of Mirrorer._mirror: the files left after one iteration
FilesAfter(fs, result) == Tail(fs)

\* a loop whose except clause also drops the dependencies collected so far
DepdictAfterReset(dd, p) == IF p.result = "ok" THEN DictUpdate(dd, p.deps) ELSE <<>>

\* the for loop of Mirrorer._mirror: depdict after one iteration
DepdictAfter(dd, p) == IF p.result = "ok" THEN DictUpdate(dd, p.deps) ELSE dd

\* one iteration of the loop over the files in Mirrorer._mirror
MirrorFile ==
    /\ pc = "files"
    /\ files # <<>>
    /\ \E net \in NetFile : \E f \in {files[1]} : \E p \in {ProcessFile(disk[f.filename], requirement, f, net)} :
           /\ disk' = [disk EXCEPT ![f.filename] = p.target]
           /\ fileRequests' = IF p.opened THEN [fileRequests EXCEPT ![f.filename] = Count(@)] ELSE fileRequests
           /\ depdict' = DepdictAfter(depdict, p)
           /\ enqueued' = enqueued \cup {p.deps[i].requirement : i \in 1..Len(p.deps)}
           /\ files' = FilesAfter(files, p.result)
           /\ frameTried' = Append(frameTried, [filename |-> f.filename, result |-> p.result])
           /\ ev' = Event("file", requirement, required_by, f.filename, p.result)
    /\ UNCHANGED <<started, options, paths, run, cfg, pc, topIdx, cache, requirement, required_by, deps, depPos, next_deps,
                   indexRequests, selected, loggedSkipped, frameSelected, processedLog, prev>>

\* the end of Mirrorer._mirror: self._processed_pkgs.add(requirement); return depdict
MirrorReturn ==
    /\ pc = "files"
    /\ files = <<>>
    /\ cache' = CacheAdd(cache, requirement)
    /\ ev' = Event("processed", requirement, required_by, "", "")
    /\ processedLog' = Append(processedLog, requirement)
    /\ ReturnToMirror(required_by, depdict)
    /\ UNCHANGED <<started, options, paths, run, cfg, disk, requirement, required_by, files, depdict, indexRequests, fileRequests,
                   selected, enqueued, loggedSkipped, frameSelected, frameTried, prev>>

\* mirror(args): the loop over the [requirements] block has ended
MirrorFinish ==
    /\ pc = "top"
    /\ topIdx > Len(TopReqs)
    /\ pc' = "done"
    /\ ev' = Event("finished", NoReq, NoReq, "", "")
    /\ UNCHANGED <<started, options, paths, run, cfg, topIdx, cache, disk, requirement, required_by, files, depdict, deps, depPos, next_deps,
                   indexRequests, fileRequests, selected, enqueued, loggedSkipped, frameSelected, frameTried, processedLog, prev>>

\* the command is run again on the same index path, configuration and index:
\* a new Mirrorer with an empty cache
NextRun ==
    /\ pc \in {"done", "aborted"}
    /\ run < MaxRuns
    /\ run' = run + 1
    /\ pc' = "top"
    /\ topIdx' = 1
    /\ cache' = {}
    /\ requirement' = NoReq
    /\ required_by' = NoReq
    /\ files' = <<>>
    /\ depdict' = <<>>
    /\ deps' = <<>>
    /\ depPos' = 0
    /\ next_deps' = <<>>
    /\ ev' = Event("init", NoReq, NoReq, "", "")
    /\ indexRequests' = [n \in Packages |-> 0]
    /\ fileRequests' = [f \in Filenames |-> 0]
    /\ selected' = {}
    /\ enqueued' = {}
    /\ loggedSkipped' = {}
    /\ frameSelected' = <<>>
    /\ frameTried' = <<>>
    /\ processedLog' = <<>>
    /\ prev' = disk
    /\ started' = <<>>
    /\ UNCHANGED <<options, paths, cfg, disk>>

Next == MirrorTop \/ MirrorDep \/ MirrorFile \/ MirrorReturn \/ MirrorFinish \/ NextRun

Spec == Init /\ [][Next]_vars

\* one run of mirror(args) from an empty index path
RunNext == MirrorTop \/ MirrorDep \/ MirrorFile \/ MirrorReturn \/ MirrorFinish

\* the run goes on: until it has ended the program keeps taking steps
LiveSpec == Init /\ [][RunNext]_vars /\ ([]<>(pc \in {"done", "aborted"}) \/ []<><<RunNext>>_vars)

(***************************************************************************)
(* Properties.                                                             *)
(***************************************************************************)
\* the events of a step that enters Mirrorer._mirror
EnterKinds == {"cached", "irrelevant", "http_error", "url_error", "bad_index", "filter_raise", "no_files", "selected"}

\* the names of the files the index lists for a package
PkgFilenames(name) == {IndexFiles(name)[i].filename : i \in 1..Len(IndexFiles(name))}

\* the preferred digest algorithm of a file: sha256 if offered, else the first
PreferredAlg(fileinfo) ==
    IF \E i \in 1..Len(fileinfo.hashes) : fileinfo.hashes[i][1] = "sha256" THEN "sha256" ELSE fileinfo.hashes[1][1]

\* the target t of the file exists and hashes to the digest the index declares
Good(filename, t) ==
    /\ t.content # Absent
    /\ Digest(PreferredAlg(FileInfo(filename)), t.content) = Exphash(FileInfo(filename), PreferredAlg(FileInfo(filename)))

\* the simple-case requirements processed so far in this run
SimpleProcessed == {processedLog[i] : i \in {j \in 1..Len(processedLog) : IsSimpleCase(processedLog[j])}}

\* C1: once a simple-case requirement for a package has been processed, a
\* later simple-case requirement for that package, from any parent or the top
\* level, is skipped with no index request and no download, and no package
\* is processed twice through simple-case requirements in one run.
C1_SkipStep ==
    (ev'.kind \in EnterKinds /\ IsSimpleCase(ev'.req) /\ \E q \in SimpleProcessed : q.name = ev'.req.name)
        => /\ ev'.kind = "cached"
           /\ pc' # "files"
           /\ UNCHANGED <<indexRequests, fileRequests, disk, selected, cache, processedLog>>

C1_ProcessedOnce ==
    /\ [](\A i, j \in 1..Len(processedLog) :
            (i < j /\ IsSimpleCase(processedLog[i]) /\ IsSimpleCase(processedLog[j])) => processedLog[i].name # processedLog[j].name)
    /\ [][C1_SkipStep]_vars

C1_Witness ==
    /\ ev.kind = "cached"
    /\ ev.req = ReqBarGe3
    /\ ev.required_by = NoReq
    /\ ReqBarGe1 \in SimpleProcessed

\* C2: whenever _mirror skips a simple-case requirement because its package
\* name is in the processed set, some file already selected for that package
\* has a version contained in the requirement's specifier set.
C2_SkippedIsSatisfied ==
    (ev.kind = "cached" /\ IsSimpleCase(ev.req))
        => \E fn \in selected \cap PkgFilenames(ev.req.name) : SpecifierContains(ev.req.specifier, FileInfo(fn).version)

\* C3: when a traversal (Mirrorer.mirror) has completed, every dependency
\* returned by _process_file in the run is in the processed set or was
\* printed as skipped.
C3_EnqueuedSettled ==
    pc \in {"top", "done"} => \A d \in enqueued : CacheCheck(cache, d) \/ d \in loggedSkipped

C3_Witness ==
    /\ pc = "done"
    /\ ReqBazLt1 \in enqueued \cap loggedSkipped
    /\ ~CacheCheck(cache, ReqBazLt1)
    /\ ReqBaz \in enqueued
    /\ CacheCheck(cache, ReqBaz)

\* C4: whenever _download_file has returned normally (the file was then
\* parsed, or its archive failed to open), the target exists and hashes under
\* the chosen algorithm to the digest the index declares.
C4_ReturnedMeansVerified ==
    (ev.kind = "file" /\ ev.result \in {"ok", "archive"})
        => /\ disk[ev.filename].content # Absent
           /\ Digest(HashAlg(FileInfo(ev.filename)), disk[ev.filename].content)
                = Exphash(FileInfo(ev.filename), HashAlg(FileInfo(ev.filename)))

C4_Witness ==
    /\ run = 2
    /\ ev.kind = "file"
    /\ ev.result = "ok"
    /\ fileRequests[ev.filename] = 0
    /\ \E fn \in Filenames : fn # ev.filename /\ fileRequests[fn] > 0 /\ Good(fn, disk[fn])

\* C5: between calls of _download_file, every target path is absent or holds
\* bytes whose digest is the one the index declares.
C5_TargetAbsentOrVerified == \A fn \in Filenames : disk[fn].content = Absent \/ Good(fn, disk[fn])

\* C6: a file URL is opened only when the target is absent or its digest
\* differs, and in a later run every file the previous run left on disk with
\* the expected digest is not requested and keeps its content and its sidecar.
C6_OpenStep ==
    \A fn \in Filenames : (run' = run /\ fileRequests'[fn] # fileRequests[fn]) => ~Good(fn, disk[fn])

C6_SecondRunIdle ==
    /\ [][C6_OpenStep]_vars
    /\ [](run > 1 => \A fn \in Filenames :
            Good(fn, prev[fn]) => /\ fileRequests[fn] = 0
                                  /\ disk[fn].content = prev[fn].content
                                  /\ disk[fn].sidecar = prev[fn].sidecar)

C6_Witness ==
    /\ run = 2
    /\ pc = "done"
    /\ \E fn \in selected : Good(fn, prev[fn]) /\ disk[fn] = prev[fn] /\ \E i \in 1..Len(processedLog) : fn \in PkgFilenames(processedLog[i].name)
    /\ \E fn \in selected : ~Good(fn, prev[fn]) /\ fileRequests[fn] > 0

\* C7: on a digest mismatch _download_file deletes the target and raises; only
\* that file is lost: the loop goes on with the remaining files, and when
\* _mirror ends every selected file has been processed.
C7_MismatchStep ==
    (ev'.kind = "file" /\ ev'.result = "mismatch")
        => /\ disk'[ev'.filename].content = Absent
           /\ pc' = "files"
           /\ files # <<>>
           /\ files' = Tail(files)
           /\ depdict' = depdict
           /\ cache' = cache

C7_MismatchConfined ==
    /\ [][C7_MismatchStep]_vars
    /\ [](ev.kind = "processed" => [i \in 1..Len(frameTried) |-> frameTried[i].filename] = [i \in 1..Len(frameSelected) |-> frameSelected[i].filename])

C7_Witness ==
    /\ ev.kind = "file"
    /\ ev.result = "ok"
    /\ \E i \in 1..Len(frameTried) : frameTried[i].result = "mismatch" /\ disk[frameTried[i].filename].content = Absent

\* the dependencies of the files that succeeded among tried[1..n], merged in order
RECURSIVE DepsOfOk(_, _, _)
DepsOfOk(req, tried, n) ==
    IF n = 0 THEN <<>>
    ELSE IF tried[n].result = "ok" THEN DictUpdate(DepsOfOk(req, tried, n - 1), FileDeps(req, tried[n].filename, Envs))
    ELSE DepsOfOk(req, tried, n - 1)

\* C8: an exception while processing one file skips only that file: when
\* _mirror ends every selected file has been processed, and the dependencies
\* of the files that succeeded are returned and are in the batches of mirror.
C8_FailureIsolated ==
    ev.kind = "processed"
        => /\ [i \in 1..Len(frameTried) |-> frameTried[i].filename] = [i \in 1..Len(frameSelected) |-> frameSelected[i].filename]
           /\ depdict = DepsOfOk(requirement, frameTried, Len(frameTried))
           /\ \A i \in 1..Len(depdict) : depdict[i] \in Range(deps) \cup Range(next_deps)

C8_Witness ==
    /\ ev.kind = "processed"
    /\ depdict # <<>>
    /\ \E i, j \in 1..Len(frameTried) : i < j /\ frameTried[i].result = "ok" /\ frameTried[j].result \notin {"ok"}
    /\ \E i, j \in 1..Len(frameTried) : i < j /\ frameTried[i].result \notin {"ok"} /\ frameTried[j].result = "ok"

\* C9: when filtering leaves no file, a top-level requirement makes _mirror
\* raise out of Mirrorer.mirror, and a dependency is skipped without error:
\* the traversal goes on with the next dependency of the batch.
C9_NoFilesStep ==
    ev'.kind = "no_files"
        => /\ ev'.req \in loggedSkipped'
           /\ cache' = cache
           /\ IF ev'.required_by = NoReq THEN pc' = "aborted"
              ELSE /\ pc' \in {"batch", "top"}
                   /\ pc = "batch"
                   /\ depPos < Len(deps) => (pc' = "batch" /\ deps' = deps /\ depPos' = depPos + 1)

C9_NoFiles == [][C9_NoFilesStep]_vars

C9_Witness ==
    /\ ev.kind = "no_files"
    /\ ev.required_by # NoReq
    /\ pc = "batch"
    /\ depPos = 2
    /\ Len(deps) > 2
    /\ deps[1].requirement = ev.req
    /\ ev.req \in loggedSkipped
    /\ ~CacheCheck(cache, ev.req)

\* C10: an HTTP error on the index request of a top-level requirement is
\* printed, the requirement is not added to the processed set, and mirror(args)
\* goes on with the next requirement of the block.
C10_HttpErrorStep ==
    (ev'.kind = "http_error" /\ ev'.required_by = NoReq)
        => /\ pc = "top"
           /\ pc' = "top"
           /\ topIdx' = topIdx + 1
           /\ cache' = cache
           /\ ~CacheCheck(cache', ev'.req)
           /\ disk' = disk

C10_TopLevelHttpError == [][C10_HttpErrorStep]_vars

C10_Witness ==
    /\ ev.req = ReqBarGe3
    /\ ev.kind = "no_files"
    /\ ev.required_by = NoReq
    /\ topIdx = 2
    /\ indexRequests["foo"] > 0
    /\ ~CacheCheck(cache, ReqFoo)
    /\ processedLog = <<>>

\* C11: an HTTP 404 on the index request of any requirement, top-level or
\* dependency, is logged and the traversal goes on: it does not end the run.
C11_NotFoundContinues ==
    (ev.kind = "http_error" /\ ev.result = "http404") => pc # "aborted"

(***************************************************************************)
(* The file filter on its own: Mirrorer._filter_files applied once to an   *)
(* index listing, for every setting of the flags, several environment      *)
(* sets, several requirements and both kinds of caller.                    *)
(***************************************************************************)
\* the environment sets: one python, two pythons, python 2.7 alone
FilterEnvs ==
    { << Env(310, 0, "linux", "x86_64", {}) >>,
      << Env(310, 0, "linux", "x86_64", {}), Env(311, 0, "linux", "x86_64", {}) >>,
      << Env(207, 0, "linux", "x86_64", {}) >> }

\* the Mirrorer's settings for the flags -W and -a and the environments envs
ConfigFor(all_wheels, all_versions, envs) ==
    [package_type_regex |-> {"whl", "zip", "tar.gz"}, mirror_all_wheels |-> all_wheels, mirror_all_versions |-> all_versions,
     pyversions |-> SupportedPyversions(envs), platforms |-> SupportedPlatforms(envs)]

\* the files an index may list for the package pkg, in index order
PoolFiles ==
    << File("pkg-3.tar.gz", "tar.gz", TRUE, 3, <<>>, <<>>, TRUE, <<Sha("pkg-3.tar.gz")>>),
       File("pkg-3-macosx-10.15-x86_64.tar.gz", "tar.gz", FALSE, 3, <<>>, <<>>, FALSE, <<Sha("pkg-3-macosx-10.15-x86_64.tar.gz")>>),
       File("pkg-2.tar.gz", "tar.gz", TRUE, 2, <<>>, <<Clause(">=", 3, 11, FALSE)>>, FALSE, <<Sha("pkg-2.tar.gz")>>),
       File("pkg-2.zip", "zip", TRUE, 2, <<>>, <<>>, FALSE, <<Sha("pkg-2.zip")>>),
       File("pkg-2-cp310-cp310-manylinux_2_17_x86_64.whl", "whl", TRUE, 2, <<Tag(Interp("cp", <<3, 1, 0>>), PlatLinux217)>>, <<>>, FALSE,
            <<Sha("pkg-2-cp310-cp310-manylinux_2_17_x86_64.whl")>>),
       File("pkg-2-cp311-cp311-manylinux2014_x86_64.whl", "whl", TRUE, 2, <<Tag(Interp("cp", <<3, 1, 1>>), PlatLinux2014)>>, <<>>, FALSE,
            <<Sha("pkg-2-cp311-cp311-manylinux2014_x86_64.whl")>>),
       File("pkg-2-py3-none-any.whl", "whl", TRUE, 2, <<Tag(Interp("py", <<3>>), PlatAny)>>, <<>>, FALSE, <<Sha("pkg-2-py3-none-any.whl")>>),
       File("pkg-1.zip", "zip", TRUE, 1, <<>>, <<Clause(">=", 3, 6, TRUE)>>, FALSE, <<Sha("pkg-1.zip")>>),
       File("pkg-1-cp310-cp310-manylinux_2_17_x86_64.whl", "whl", TRUE, 1, <<Tag(Interp("cp", <<3, 1, 0>>), PlatLinux217)>>, <<>>, FALSE,
            <<Sha("pkg-1-cp310-cp310-manylinux_2_17_x86_64.whl")>>),
       File("pkg-1-cp310-abi3-manylinux_2_17_x86_64.whl", "whl", TRUE, 1, <<Tag(Interp("cp", <<3, 1, 0>>), PlatLinux217)>>, <<>>, FALSE,
            <<Sha("pkg-1-cp310-abi3-manylinux_2_17_x86_64.whl")>>),
       File("pkg-1-cp310-cp310-win_amd64.whl", "whl", TRUE, 1, <<Tag(Interp("cp", <<3, 1, 0>>), PlatWin)>>, <<>>, FALSE,
            <<Sha("pkg-1-cp310-cp310-win_amd64.whl")>>),
       File("pkg-1-py-none-any.whl", "whl", TRUE, 1, <<Tag(Interp("py", <<>>), PlatAny)>>, <<>>, FALSE, <<Sha("pkg-1-py-none-any.whl")>>) >>

\* the listings: the files of the pool at the positions of a set, in index order
Listing(positions) == SelectSeq(PoolFiles, LAMBDA f : \E i \in positions : PoolFiles[i] = f)

Listings == {Listing(ps) : ps \in {qs \in SUBSET (1..Len(PoolFiles)) : Cardinality(qs) <= MaxListing}}

\* the requirements the filter is asked for
FilterReqs ==
    { Req("pkg", {}, NoMarker, {}), Req("pkg", {<<">=", 2>>}, NoMarker, {}),
      Req("pkg", {<<"==", 3>>}, NoMarker, {}), Req("pkg", {<<"<", 2>>}, NoMarker, {}) }

FilterInit ==
    /\ run = 1
    /\ cfg \in {ConfigFor(w, a, envs) : w \in BOOLEAN, a \in BOOLEAN, envs \in FilterEnvs}
    /\ pc = "filter"
    /\ topIdx = 1
    /\ cache = {}
    /\ disk = [f \in Filenames |-> NoTarget]
    /\ requirement \in FilterReqs
    /\ required_by \in {NoReq, ReqFoo}
    /\ files \in Listings
    /\ depdict = <<>>
    /\ deps = <<>>
    /\ depPos = 0
    /\ next_deps = <<>>
    /\ ev = Event("init", NoReq, NoReq, "", "")
    /\ indexRequests = [n \in Packages |-> 0]
    /\ fileRequests = [f \in Filenames |-> 0]
    /\ selected = {}
    /\ enqueued = {}
    /\ loggedSkipped = {}
    /\ frameSelected = <<>>
    /\ frameTried = <<>>
    /\ processedLog = <<>>
    /\ prev = [f \in Filenames |-> NoTarget]
    /\ started = <<>>
    /\ options = <<>>
    /\ paths = {}

\* files = self._filter_files(requirement, required_by, files): the event holds
\* the status ("ok", "none" for None, "raise"), frameSelected the list returned
FilterApply ==
    /\ pc = "filter"
    /\ \E r \in {FilterFiles(cfg, requirement, required_by, files)} :
           /\ frameSelected' = r.files
           /\ ev' = Event("filtered", requirement, required_by, "", r.status)
    /\ pc' = "filtered"
    /\ UNCHANGED <<started, options, paths, run, cfg, topIdx, cache, disk, requirement, required_by, files, depdict, deps, depPos, next_deps,
                   indexRequests, fileRequests, selected, enqueued, loggedSkipped, frameTried, processedLog, prev>>

\* the files that reach self._filter_files_by_environment in _filter_files
\* (lines 230-257): those of an accepted extension with a valid version, not
\* yanked, sorted by version and inside the requirement's specifier
EnvironmentInput(c, req, fs) ==
    FilterByRequirement(SortFilesByVersion(FilterFilesForValidVersions(ParseVersionAndTagsInFiles(ParseAndFilterFilesByExtension(c, fs)))), req)

\* self._filter_files_by_environment(files) on the same list with
\* mirror_all_wheels disabled (frameSelected) and enabled (frameTried); the
\* event holds which of the two calls returned rather than raised ValueError
\* ("both", "disabled", "enabled", "neither")
EnvironmentApply ==
    /\ pc = "filter"
    /\ \E fs \in {EnvironmentInput(cfg, requirement, files)} :
           /\ fs # <<>>
           /\ \E off \in {FilterFilesByEnvironment([cfg EXCEPT !.mirror_all_wheels = FALSE], fs)},
                 on \in {FilterFilesByEnvironment([cfg EXCEPT !.mirror_all_wheels = TRUE], fs)} :
                  /\ frameSelected' = off.files
                  /\ frameTried' = on.files
                  /\ ev' = Event("environment", requirement, required_by, "",
                                 IF off.raise THEN (IF on.raise THEN "neither" ELSE "enabled")
                                 ELSE (IF on.raise THEN "disabled" ELSE "both"))
    /\ pc' = "compared"
    /\ UNCHANGED <<started, options, paths, run, cfg, topIdx, cache, disk, requirement, required_by, files, depdict, deps, depPos, next_deps,
                   indexRequests, fileRequests, selected, enqueued, loggedSkipped, processedLog, prev>>

FilterNext == FilterApply \/ EnvironmentApply

FilterSpec == FilterInit /\ [][FilterNext]_vars

\* C12: every file _filter_files returns for a requirement has a version in
\* the requirement's specifier set, whatever the flags and the caller.
C12_SelectedInSpecifier ==
    ev.kind = "filtered" => \A i \in 1..Len(frameSelected) : SpecifierContains(requirement.specifier, frameSelected[i].version)

C12_Witness ==
    /\ ev.kind = "filtered"
    /\ ev.result = "ok"
    /\ cfg.mirror_all_versions
    /\ cfg.mirror_all_wheels
    /\ required_by = NoReq
    /\ requirement.specifier = {<<">=", 2>>}
    /\ Len(frameSelected) >= 2
    /\ \E i \in 1..Len(files) : files[i].version = 1 /\ files[i].parsed /\ MatchesEnvironments(files[i], cfg.pyversions, cfg.platforms) = "T"

\* the python version pv is in the requires-python of file f after the repair
PythonAllowed(f, pv) ==
    /\ ~InvalidSpecifier(RepairRequiresPython(f.requires_python))
    /\ RequiresPythonContains(RepairRequiresPython(f.requires_python), pv)

TagCompatible(t, pyversions, platforms) ==
    /\ ParseInterpreter(t.interpreter).name \in {"cp", "py"}
    /\ ParseInterpreter(t.interpreter).ver # NoVer
    /\ \E k \in 1..Len(pyversions) : pyversions[k] >= VerNum(ParseInterpreter(t.interpreter).ver)
    /\ t.platform.name = "any" \/ \E k \in 1..Len(platforms) : t.platform.name \in platforms[k]

\* C14: every selected wheel has a tag that is compatible with the configured
\* environments, for every interpreter version, the bare "3" included.
C14_WheelTagCompatible ==
    ev.kind = "filtered"
        => \A i \in 1..Len(frameSelected) :
              frameSelected[i].is_wheel => \E j \in 1..Len(frameSelected[i].tags) : TagCompatible(frameSelected[i].tags[j], cfg.pyversions, cfg.platforms)

\* file f of a listing suits the configured environments: all of them at once
\* with mirror-all-wheels, one cell of the grid without
Compatible(c, f) ==
    IF c.mirror_all_wheels THEN MatchesEnvironments(f, c.pyversions, c.platforms) = "T"
    ELSE \E k \in 1..Len(c.pyversions) : \E l \in 1..Len(c.platforms) : MatchesEnvironments(f, <<c.pyversions[k]>>, <<c.platforms[l]>>) = "T"

\* the versions of the listing fs that satisfy the specifier of req and have
\* an environment-compatible, parseable, non-yanked file
SurvivingVersions(c, req, fs) ==
    {fs[i].version : i \in {j \in 1..Len(fs) : /\ fs[j].ext \in c.package_type_regex
                                               /\ fs[j].parsed
                                               /\ ~fs[j].yanked
                                               /\ SpecifierContains(req.specifier, fs[j].version)
                                               /\ Compatible(c, fs[j])}}

\* C15: for a top-level requirement with mirror-all-versions the returned files
\* cover every surviving version; otherwise they all have one version, the
\* highest that satisfies the specifier and has an environment-compatible,
\* non-yanked file.
C15_VersionBreadth ==
    (ev.kind = "filtered" /\ ev.result = "ok")
        => IF cfg.mirror_all_versions /\ required_by = NoReq
           THEN {frameSelected[i].version : i \in 1..Len(frameSelected)} = SurvivingVersions(cfg, requirement, files)
           ELSE /\ frameSelected # <<>>
                /\ \A i \in 1..Len(frameSelected) :
                      /\ frameSelected[i].version \in SurvivingVersions(cfg, requirement, files)
                      /\ \A v \in SurvivingVersions(cfg, requirement, files) : v <= frameSelected[i].version

C15_Witness ==
    /\ ev.kind = "filtered"
    /\ ev.result = "ok"
    /\ cfg.mirror_all_versions
    /\ required_by # NoReq
    /\ SurvivingVersions(cfg, requirement, files) = {1, 2}
    /\ \E i \in 1..Len(files) : files[i].version = 3 /\ files[i].yanked
    /\ \A i \in 1..Len(frameSelected) : frameSelected[i].version = 2

\* position i of the listing fs holds a file the filter considers for req:
\* accepted extension, parseable, not yanked, version in the specifier
Considered(c, req, fs, i) ==
    /\ fs[i].ext \in c.package_type_regex
    /\ fs[i].parsed
    /\ ~fs[i].yanked
    /\ SpecifierContains(req.specifier, fs[i].version)

\* the positions of the wheels (wheel = TRUE) or sdists of version v in fs
\* that are considered and match the cell (pv, plat)
CellMatches(c, req, fs, v, wheel, pv, plat) ==
    {i \in 1..Len(fs) : /\ Considered(c, req, fs, i)
                        /\ fs[i].version = v
                        /\ (fs[i].ext = "whl") = wheel
                        /\ MatchesEnvironments(fs[i], <<pv>>, <<plat>>) = "T"}

\* the score of the wheel at position i
ScoreAt(fs, i) == CalculateScoresForWheel(ParseVersionAndTags(fs[i]))

\* the best of the positions ps: the highest score, the earliest among equals
\* (0 when there is none); sdists are taken in index order
BestAt(fs, ps, wheel) ==
    IF ps = {} THEN 0
    ELSE CHOOSE i \in ps : \A j \in ps : IF wheel THEN ScoreAt(fs, j) < ScoreAt(fs, i) \/ (ScoreAt(fs, j) = ScoreAt(fs, i) /\ i <= j)
                                         ELSE i <= j

\* the file names picked for version v over the cells of the grid
Picked(c, req, fs, v, wheel) ==
    {fs[i].filename : i \in {BestAt(fs, CellMatches(c, req, fs, v, wheel, c.pyversions[k], c.platforms[l]), wheel) :
                               k \in 1..Len(c.pyversions), l \in 1..Len(c.platforms)} \ {0}}

\* C16: without mirror-all-wheels, for each version of the selection the
\* wheels are exactly the best wheel of each cell that has a matching wheel,
\* the sdists exactly the first matching sdist of each cell, and no file
\* appears twice.
C16_BestPerCell ==
    (ev.kind = "filtered" /\ ev.result = "ok" /\ ~cfg.mirror_all_wheels)
        => /\ \A i, j \in 1..Len(frameSelected) : frameSelected[i].filename = frameSelected[j].filename => i = j
           /\ \A v \in {frameSelected[i].version : i \in 1..Len(frameSelected)} : \A wheel \in BOOLEAN :
                 {frameSelected[i].filename : i \in {j \in 1..Len(frameSelected) : frameSelected[j].version = v /\ frameSelected[j].is_wheel = wheel}}
                    = Picked(cfg, requirement, files, v, wheel)

C16_Witness ==
    /\ ev.kind = "filtered"
    /\ ev.result = "ok"
    /\ ~cfg.mirror_all_wheels
    /\ Len(cfg.pyversions) = 2
    /\ Cardinality(Picked(cfg, requirement, files, 2, TRUE)) = 2
    /\ Cardinality(Picked(cfg, requirement, files, 2, FALSE)) = 2
    /\ Len(frameSelected) = 4

\* C17: no yanked file and no file whose name did not parse is in the list
\* _filter_files returns, also when it is the highest version, the only one
\* the specifier admits, or the only file listed.
C17_NoYankedNoUnparsed ==
    ev.kind = "filtered" => \A i \in 1..Len(frameSelected) : ~frameSelected[i].yanked /\ frameSelected[i].parsed /\ frameSelected[i].has_version

C17_Witness ==
    /\ ev.kind = "filtered"
    /\ ev.result = "none"
    /\ frameSelected = <<>>
    /\ requirement.specifier = {<<"==", 3>>}
    /\ \E i \in 1..Len(files) : files[i].yanked /\ files[i].version = 3
    /\ \E i \in 1..Len(files) : ~files[i].parsed
    /\ \E i \in 1..Len(files) : files[i].version < 3 /\ files[i].parsed /\ Compatible(cfg, files[i])

\* the requirements skipped so far in this run because their marker holds in
\* no configured environment
SkippedIrrelevant == {r \in loggedSkipped : r.marker # NoMarker /\ ~IsRequirementRelevant(r, Envs, {})}

\* C18: a requirement whose marker holds in no configured environment causes
\* no index request and no download and is added to the processed set, and a
\* later occurrence of it is skipped by the processed-set check.
C18_IrrelevantStep ==
    /\ ev'.kind = "irrelevant"
          => /\ UNCHANGED <<indexRequests, fileRequests, disk, selected>>
             /\ CacheCheck(cache', ev'.req)
             /\ pc' \notin {"files", "aborted"}
    /\ (ev'.kind \in EnterKinds /\ ev'.req \in SkippedIrrelevant)
          => /\ ev'.kind = "cached"
             /\ UNCHANGED <<indexRequests, fileRequests, disk, selected, cache>>

C18_IrrelevantSkipped == [][C18_IrrelevantStep]_vars

C18_Witness ==
    /\ ev.kind = "cached"
    /\ ev.req = ReqBazWin
    /\ ev.required_by = NoReq
    /\ ReqBazWin \in SkippedIrrelevant
    /\ topIdx = Len(TopReqs) + 1
    /\ indexRequests["baz"] = 1

(***************************************************************************)
(* utils.is_requirement_relevant on its own, called as Mirrorer._mirror    *)
(* calls it: the environments are self.envs.values(), the extras those of  *)
(* required_by.                                                            *)
(***************************************************************************)
\* the environments a configuration may hold
EnvPool == { Env(310, 0, "linux", "x86_64", {}), Env(311, 0, "win32", "amd64", {}), Env(311, 0, "linux", "x86_64", {}) }

\* self.envs.values(): up to MaxEnvs environments
EnvLists == UNION {[1..n -> EnvPool] : n \in 0..MaxEnvs}

\* the requirements tested: no marker, a marker on the platform, on the
\* python version, on an extra, and a marker whose comparison is undefined
RelevantReqs ==
    { Req("baz", {}, NoMarker, {}), Req("baz", {}, Marker("sys_platform", "win32"), {}), Req("baz", {}, Marker("sys_platform", "darwin"), {}),
      Req("baz", {}, Marker("python_version", 310), {}), Req("baz", {}, Marker("extra", "x"), {}),
      Req("baz", {}, MarkerOp("sys_platform", "~=", "linux"), {}) }

RelevantInit ==
    /\ run = 1
    /\ cfg \in {[envs |-> e] : e \in EnvLists}
    /\ pc = "relevant"
    /\ topIdx = 1
    /\ cache = {}
    /\ disk = [f \in Filenames |-> NoTarget]
    /\ requirement \in RelevantReqs
    /\ required_by \in {Req("foo", {}, NoMarker, x) : x \in SUBSET {"x", "y"}}
    /\ files = <<>>
    /\ depdict = <<>>
    /\ deps = <<>>
    /\ depPos = 0
    /\ next_deps = <<>>
    /\ ev = Event("init", NoReq, NoReq, "", "")
    /\ indexRequests = [n \in Packages |-> 0]
    /\ fileRequests = [f \in Filenames |-> 0]
    /\ selected = {}
    /\ enqueued = {}
    /\ loggedSkipped = {}
    /\ frameSelected = <<>>
    /\ frameTried = <<>>
    /\ processedLog = <<>>
    /\ prev = [f \in Filenames |-> NoTarget]
    /\ started = <<>>
    /\ options = <<>>
    /\ paths = {}

\* is_requirement_relevant(requirement, self.envs.values(), extras=required_by.extras)
RelevantApply ==
    /\ pc = "relevant"
    /\ ev' = Event("relevant", requirement, required_by, "",
                   IF IsRequirementRelevantRaises(requirement, cfg.envs, required_by.extras) THEN "raise"
                   ELSE IF IsRequirementRelevant(requirement, cfg.envs, required_by.extras) THEN "True" ELSE "False")
    /\ pc' = "tested"
    /\ UNCHANGED <<started, options, paths, run, cfg, topIdx, cache, disk, requirement, required_by, files, depdict, deps, depPos, next_deps,
                   indexRequests, fileRequests, selected, enqueued, loggedSkipped, frameSelected, frameTried, processedLog, prev>>

RelevantNext == RelevantApply

RelevantSpec == RelevantInit /\ [][RelevantNext]_vars

\* the marker of r holds in environment e, with the extras in its context
HoldsIn(r, e, extras) == MarkerEvaluate(r.marker, IF extras # {} THEN [e EXCEPT !.extra = extras] ELSE e)

LinePool == { <<>>, <<">=2">>, <<"<1.27">> }

\* "\n".join(lines)
RECURSIVE JoinLines(_)
JoinLines(lines) ==
    IF lines = <<>> THEN <<>>
    ELSE IF Len(lines) = 1 THEN lines[1]
    ELSE lines[1] \o <<"\n">> \o JoinLines(Tail(lines))

\* the values configparser can return for a key
Values ==
    {JoinLines(ls) : ls \in {ms \in UNION {[1..n -> LinePool] : n \in 0..MaxLines} : ms = <<>> \/ ms[Len(ms)] # <<>>}}

\* the position of the first "\n" of a string that has one
FirstNewline(str) == CHOOSE k \in 1..Len(str) : str[k] = "\n" /\ \A j \in 1..(k - 1) : str[j] # "\n"

\* str.splitlines()
RECURSIVE Splitlines(_)
Splitlines(str) ==
    IF str = <<>> THEN <<>>
    ELSE IF \E k \in 1..Len(str) : str[k] = "\n"
    THEN <<SubSeq(str, 1, FirstNewline(str) - 1)>> \o Splitlines(SubSeq(str, FirstNewline(str) + 1, Len(str)))
    ELSE <<str>>

\* str.strip()
RECURSIVE Strip(_)
Strip(str) ==
    IF str = <<>> THEN <<>>
    ELSE IF str[1] \in {" ", "\n"} THEN Strip(Tail(str))
    ELSE IF str[Len(str)] \in {" ", "\n"} THEN Strip(SubSeq(str, 1, Len(str) - 1))
    ELSE str

\* the [requirements] blocks: one or two keys, each with a value
Blocks ==
    {<<[package |-> "urllib3", value |-> v]>> : v \in Values}
        \cup {<<[package |-> "urllib3", value |-> v], [package |-> "morgan", value |-> w]>> : v \in Values, w \in Values}

\* the arguments of the m.mirror calls mirror(args) makes for one key: the
\* package alone when splitlines() is empty, else f"{package}{req.strip()}" per line
MirrorCalls(package, reqs) ==
    IF reqs = <<>> THEN << <<package>> >>
    ELSE [i \in 1..Len(reqs) |-> <<package>> \o Strip(reqs[i])]

RequirementsInit ==
    /\ run = 1
    /\ cfg \in {[requirements |-> b] : b \in Blocks}
    /\ pc = "block"
    /\ topIdx = 1
    /\ cache = {}
    /\ disk = [f \in Filenames |-> NoTarget]
    /\ requirement = NoReq
    /\ required_by = NoReq
    /\ files = <<>>
    /\ depdict = <<>>
    /\ deps = <<>>
    /\ depPos = 0
    /\ next_deps = <<>>
    /\ ev = Event("init", NoReq, NoReq, "", "")
    /\ indexRequests = [n \in Packages |-> 0]
    /\ fileRequests = [f \in Filenames |-> 0]
    /\ selected = {}
    /\ enqueued = {}
    /\ loggedSkipped = {}
    /\ frameSelected = <<>>
    /\ frameTried = <<>>
    /\ processedLog = <<>>
    /\ prev = [f \in Filenames |-> NoTarget]
    /\ started = <<>>
    /\ options = <<>>
    /\ paths = {}

\* mirror(args): one iteration of  for package in m.config["requirements"]
MirrorPackage ==
    /\ pc = "block"
    /\ topIdx <= Len(cfg.requirements)
    /\ started' = started \o MirrorCalls(cfg.requirements[topIdx].package, Splitlines(cfg.requirements[topIdx].value))
    /\ topIdx' = topIdx + 1
    /\ UNCHANGED <<options, paths, run, cfg, pc, cache, disk, requirement, required_by, files, depdict, deps, depPos, next_deps, ev,
                   indexRequests, fileRequests, selected, enqueued, loggedSkipped, frameSelected, frameTried,
                   processedLog, prev>>

\* mirror(args): the loop over the block has ended
BlockDone ==
    /\ pc = "block"
    /\ topIdx > Len(cfg.requirements)
    /\ pc' = "started"
    /\ UNCHANGED <<started, options, paths, run, cfg, topIdx, cache, disk, requirement, required_by, files, depdict, deps, depPos,
                   next_deps, ev, indexRequests, fileRequests, selected, enqueued, loggedSkipped, frameSelected,
                   frameTried, processedLog, prev>>

RequirementsNext == MirrorPackage \/ BlockDone

RequirementsSpec == RequirementsInit /\ [][RequirementsNext]_vars

\* the traversals one key should start when its value is not empty: the
\* package with each line that is not blank
RECURSIVE ExpectedCalls(_, _)
ExpectedCalls(package, reqs) ==
    IF reqs = <<>> THEN <<>>
    ELSE (IF Strip(reqs[1]) = <<>> THEN <<>> ELSE << <<package>> \o Strip(reqs[1]) >>)
            \o ExpectedCalls(package, Tail(reqs))

\* the traversals the first n keys of a block should start
RECURSIVE ExpectedStarted(_, _)
ExpectedStarted(block, n) ==
    IF n = 0 THEN <<>>
    ELSE ExpectedStarted(block, n - 1)
            \o (IF block[n].value = <<>> THEN << <<block[n].package>> >>
                ELSE ExpectedCalls(block[n].package, Splitlines(block[n].value)))

\* C20: mirror(args) starts one traversal per non-blank line of each key's
\* value, one of the bare package name for an empty value, and none for a
\* blank line inside a value.
C20_OneTraversalPerLine ==
    pc = "started" => started = ExpectedStarted(cfg.requirements, Len(cfg.requirements))

(***************************************************************************)
(* The dictionary configparser fills while it reads a section              *)
(* (dict_type=ListExtendingOrderedDict): a sequence of [key, value] in     *)
(* insertion order.  A value is a list of lines or a string.               *)
(***************************************************************************)
\* the keys of the section
OptionKeys == {"key", "other"}

\* the lines of the file
OptionLines == {"value1", ""}

\* a list value
ListValue(items) == [list |-> TRUE, items |-> items]

\* the list values configparser assigns: the lines of one occurrence of a key
ListValues == {ListValue(ls) : ls \in UNION {[1..n -> OptionLines] : n \in 1..MaxItems}}

\* the assignments options[key] = value one file can lead to, in file order
Assignments == UNION {[1..n -> [key : OptionKeys, value : ListValues]] : n \in 0..MaxAssign}

\* key in self
HasKey(d, key) == \E i \in 1..Len(d) : d[i].key = key

\* OrderedDict.__setitem__: the value is replaced in place, a new key goes last
SuperSetItem(d, key, value) ==
    IF HasKey(d, key)
    THEN [i \in 1..Len(d) |-> IF d[i].key = key THEN [key |-> key, value |-> value] ELSE d[i]]
    ELSE Append(d, [key |-> key, value |-> value])

\* a dictionary without the list-extending branch
SetItemReplace(d, key, value) == SuperSetItem(d, key, value)

\* ListExtendingOrderedDict.__setitem__
SetItem(d, key, value) ==
    IF value.list /\ HasKey(d, key)
    THEN [i \in 1..Len(d) |-> IF d[i].key = key THEN [key |-> key, value |-> [d[i].value EXCEPT !.items = @ \o value.items]] ELSE d[i]]
    ELSE SuperSetItem(d, key, value)

ConfigInit ==
    /\ run = 1
    /\ cfg \in {[assignments |-> a] : a \in Assignments}
    /\ pc = "read"
    /\ topIdx = 1
    /\ cache = {}
    /\ disk = [f \in Filenames |-> NoTarget]
    /\ requirement = NoReq
    /\ required_by = NoReq
    /\ files = <<>>
    /\ depdict = <<>>
    /\ deps = <<>>
    /\ depPos = 0
    /\ next_deps = <<>>
    /\ ev = Event("init", NoReq, NoReq, "", "")
    /\ indexRequests = [n \in Packages |-> 0]
    /\ fileRequests = [f \in Filenames |-> 0]
    /\ selected = {}
    /\ enqueued = {}
    /\ loggedSkipped = {}
    /\ frameSelected = <<>>
    /\ frameTried = <<>>
    /\ processedLog = <<>>
    /\ prev = [f \in Filenames |-> NoTarget]
    /\ started = <<>>
    /\ options = <<>>
    /\ paths = {}

\* configparser reads the next occurrence of a key: options[key] = value
ReadOption ==
    /\ pc = "read"
    /\ topIdx <= Len(cfg.assignments)
    /\ options' = SetItem(options, cfg.assignments[topIdx].key, cfg.assignments[topIdx].value)
    /\ topIdx' = topIdx + 1
    /\ UNCHANGED <<started, paths, run, cfg, pc, cache, disk, requirement, required_by, files, depdict, deps, depPos, next_deps,
                   ev, indexRequests, fileRequests, selected, enqueued, loggedSkipped, frameSelected, frameTried,
                   processedLog, prev>>

\* the file has been read
ReadDone ==
    /\ pc = "read"
    /\ topIdx > Len(cfg.assignments)
    /\ pc' = "parsed"
    /\ UNCHANGED <<started, options, paths, run, cfg, topIdx, cache, disk, requirement, required_by, files, depdict, deps,
                   depPos, next_deps, ev, indexRequests, fileRequests, selected, enqueued, loggedSkipped,
                   frameSelected, frameTried, processedLog, prev>>

ConfigNext == ReadOption \/ ReadDone

ConfigSpec == ConfigInit /\ [][ConfigNext]_vars

\* the lines of the first n assignments that name the key, in file order
RECURSIVE Occurrences(_, _, _)
Occurrences(a, n, key) ==
    IF n = 0 THEN <<>>
    ELSE Occurrences(a, n - 1, key) \o (IF a[n].key = key THEN a[n].value.items ELSE <<>>)

\* the assignments among the first n that name the key
Assigned(a, n, key) == {i \in 1..n : a[i].key = key}

\* C21: after any number of list assignments, each key holds the
\* concatenation of the lists assigned to it, in assignment order, and a key
\* never assigned is absent.
C21_RepeatedKeysAccumulate ==
    pc \in {"read", "parsed"} =>
        \A key \in OptionKeys :
            /\ HasKey(options, key) <=> Assigned(cfg.assignments, topIdx - 1, key) # {}
            /\ \A i \in 1..Len(options) :
                   options[i].key = key => options[i].value = ListValue(Occurrences(cfg.assignments, topIdx - 1, key))

\* a key assigned three times with lists that differ has been read to the end
C21_Witness ==
    /\ pc = "parsed"
    /\ Len(cfg.assignments) = 3
    /\ \A i \in 1..3 : cfg.assignments[i].key = "key"
    /\ cfg.assignments[1].value # cfg.assignments[2].value
    /\ cfg.assignments[2].value # cfg.assignments[3].value
    /\ HasKey(options, "key")

\* C22: within one run at most one index request is issued per package
\* name, however many requirements name the package.
C22_OneIndexRequestPerPackage == \A n \in Packages : indexRequests[n] <= 1

\* a call of _mirror whose index request was answered with an api-version
\* other than 1.x, or without a list of files, raises before any file is
\* filtered or fetched and leaves the processed set and the targets alone; a
\* response with an empty api-version is handled as the plain response is
C23_BadIndexStep ==
    /\ (pc \in {"top", "batch"} /\ ev'.result \in {"api2", "nolist"})
        => /\ ev'.kind = "bad_index"
           /\ pc' = "aborted"
           /\ cache' = cache
           /\ disk' = disk
           /\ selected' = selected
           /\ fileRequests' = fileRequests
           /\ frameSelected' = frameSelected
    /\ (pc \in {"top", "batch"} /\ ev'.result = "noversion")
        => /\ ev'.kind # "bad_index"
           /\ ev'.kind = MirrorOutcome(cache, cfg, ev'.req, ev'.required_by, "ok").kind
           /\ ev'.kind = "selected" => frameSelected' = MirrorOutcome(cache, cfg, ev'.req, ev'.required_by, "ok").files

\* C23: an index response whose api-version has a major number other than 1,
\* or whose files field is not a list, makes _mirror fail before any file is
\* filtered or downloaded, with the processed set unchanged; an empty
\* api-version is accepted as 1.0.
C23_BadIndexRejected == [][C23_BadIndexStep]_vars

\* a dependency's index response declares api-version 2 after files were
\* mirrored and requirements processed
C23_Witness ==
    /\ ev.kind = "bad_index"
    /\ ev.result = "api2"
    /\ ev.required_by # NoReq
    /\ cache # {}
    /\ \E f \in Filenames : disk[f].content # Absent

\* C24: a file whose hashes hold no sha256 is still downloaded and verified,
\* under the first algorithm the index gives for it: unless the transfer
\* failed or the bytes were rejected, its processing goes on to the metadata
\* with a target that hashes to the declared digest.
C24_FirstAlgorithmWhenNoSha256 ==
    (/\ ev.kind = "file"
     /\ \A i \in 1..Len(FileInfo(ev.filename).hashes) : FileInfo(ev.filename).hashes[i][1] # "sha256"
     /\ ev.result \notin {"urlerror", "mismatch"})
        => /\ ev.result \in {"ok", "archive"}
           /\ Good(ev.filename, disk[ev.filename])

\* C25: when the evaluation of the marker raises in an environment the
\* requirement is treated as not relevant: is_requirement_relevant answers
\* False and no error leaves it.
C25_MarkerErrorIsNotRelevant ==
    (/\ ev.kind = "relevant"
     /\ \E i \in 1..Len(cfg.envs) : MarkerRaises(requirement.marker, cfg.envs[i]))
        => ev.result = "False"

(***************************************************************************)
(* utils.to_single_dash on its own.  A file name is a sequence of tokens:  *)
(* "-", ".", the digit "1", the letter "a" and the word "dev".             *)
(***************************************************************************)
NameTokens == {"-", ".", "1", "a", "dev"}

\* the file names of up to MaxName tokens
Names == UNION {[1..n -> NameTokens] : n \in 0..MaxName}

\* re.search(r"-[0-9].*-", filename): the leftmost position of a "-" followed
\* by a digit and, anywhere later, by another "-"; 0 when there is none
SearchStart(filename) ==
    IF \E p \in 1..Len(filename) : \E q \in (p + 2)..Len(filename) : filename[p] = "-" /\ filename[p + 1] = "1" /\ filename[q] = "-"
    THEN CHOOSE p \in 1..Len(filename) :
            /\ \E q \in (p + 2)..Len(filename) : filename[p] = "-" /\ filename[p + 1] = "1" /\ filename[q] = "-"
            /\ \A r \in 1..(p - 1) : ~\E q \in (r + 2)..Len(filename) : filename[r] = "-" /\ filename[r + 1] = "1" /\ filename[q] = "-"
    ELSE 0

\* s2.replace("-dev-", ".dev"): from the left, without overlap
RECURSIVE ReplaceDev(_)
ReplaceDev(s2) ==
    IF Len(s2) < 3 THEN s2
    ELSE IF SubSeq(s2, 1, 3) = <<"-", "dev", "-">> THEN <<".", "dev">> \o ReplaceDev(SubSeq(s2, 4, Len(s2)))
    ELSE <<s2[1]>> \o ReplaceDev(Tail(s2))

\* a replacement of the first "-" only
ReplaceFirstDash(s2) ==
    [i \in 1..Len(s2) |-> IF s2[i] = "-" /\ (\A j \in 1..(i - 1) : s2[j] # "-") THEN "." ELSE s2[i]]

\* s2.replace("-", ".")
ReplaceDash(s2) == [i \in 1..Len(s2) |-> IF s2[i] = "-" THEN "." ELSE s2[i]]

\* utils.to_single_dash
ToSingleDash(filename) ==
    IF SearchStart(filename) = 0 THEN filename
    ELSE SubSeq(filename, 1, SearchStart(filename))
            \o ReplaceDash(ReplaceDev(SubSeq(filename, SearchStart(filename) + 1, Len(filename))))

NameInit ==
    /\ run = 1
    /\ cfg \in {[filename |-> f] : f \in Names}
    /\ pc = "name"
    /\ topIdx = 1
    /\ cache = {}
    /\ disk = [f \in Filenames |-> NoTarget]
    /\ requirement = NoReq
    /\ required_by = NoReq
    /\ files = <<>>
    /\ depdict = <<>>
    /\ deps = <<>>
    /\ depPos = 0
    /\ next_deps = <<>>
    /\ ev = Event("init", NoReq, NoReq, "", "")
    /\ indexRequests = [n \in Packages |-> 0]
    /\ fileRequests = [f \in Filenames |-> 0]
    /\ selected = {}
    /\ enqueued = {}
    /\ loggedSkipped = {}
    /\ frameSelected = <<>>
    /\ frameTried = <<>>
    /\ processedLog = <<>>
    /\ prev = [f \in Filenames |-> NoTarget]
    /\ started = <<>>
    /\ options = <<>>
    /\ paths = {}

\* to_single_dash(filename)
Repair ==
    /\ pc = "name"
    /\ ev' = Event("to_single_dash", NoReq, NoReq, ToSingleDash(cfg.filename), "")
    /\ pc' = "repaired"
    /\ UNCHANGED <<started, options, paths, run, cfg, topIdx, cache, disk, requirement, required_by, files, depdict, deps,
                   depPos, next_deps, indexRequests, fileRequests, selected, enqueued, loggedSkipped, frameSelected,
                   frameTried, processedLog, prev>>

\* to_single_dash applied to its own result; the first result is kept beside the second
RepairAgain ==
    /\ pc = "repaired"
    /\ ev' = Event("to_single_dash", NoReq, NoReq, ToSingleDash(ev.filename), ev.filename)
    /\ pc' = "repaired twice"
    /\ UNCHANGED <<started, options, paths, run, cfg, topIdx, cache, disk, requirement, required_by, files, depdict, deps,
                   depPos, next_deps, indexRequests, fileRequests, selected, enqueued, loggedSkipped, frameSelected,
                   frameTried, processedLog, prev>>

NameNext == Repair \/ RepairAgain

NameSpec == NameInit /\ [][NameNext]_vars

\* the name has a second "-" after its first "-<digit>"
SecondDash(filename) ==
    \E p \in 1..Len(filename) :
        /\ p < Len(filename) /\ filename[p] = "-" /\ filename[p + 1] = "1"
        /\ \A r \in 1..(p - 1) : ~(filename[r] = "-" /\ filename[r + 1] = "1")
        /\ \E q \in (p + 1)..Len(filename) : filename[q] = "-"

\* C26: to_single_dash is idempotent, and returns unchanged a name with no
\* second "-" after its first "-<digit>".
C26_Idempotent ==
    /\ pc = "repaired twice" => ev.filename = ev.result
    /\ (pc = "repaired" /\ ~SecondDash(cfg.filename)) => ev.filename = cfg.filename

\* a name with "-dev-" and another "-" after its version has been repaired twice
C26_Witness ==
    /\ pc = "repaired twice"
    /\ SearchStart(cfg.filename) > 0
    /\ \E i \in (SearchStart(cfg.filename) + 1)..(Len(cfg.filename) - 2) : SubSeq(cfg.filename, i, i + 2) = <<"-", "dev", "-">>
    /\ \E i \in 1..Len(ev.result) : ev.result[i] = "." /\ cfg.filename[i] = "-"
    /\ Len(ev.result) < Len(cfg.filename)

\* C27: a requirement whose files are processed is not in the processed set
\* while _mirror is in its loop over the files; when _mirror has returned its
\* dictionary every selected file has been tried, in order, and Cache.check
\* answers true for the requirement, whatever became of the files.
C27_ProcessedAfterFiles ==
    /\ pc = "files" => ~CacheCheck(cache, requirement)
    /\ ev.kind = "processed"
        => /\ CacheCheck(cache, ev.req)
           /\ [i \in 1..Len(frameTried) |-> frameTried[i].filename] = [i \in 1..Len(frameSelected) |-> frameSelected[i].filename]

\* _mirror has returned for a requirement with two selected files that both failed
C27_Witness ==
    /\ ev.kind = "processed"
    /\ Len(frameSelected) >= 2
    /\ \A i \in 1..Len(frameTried) : frameTried[i].result # "ok"
    /\ CacheCheck(cache, ev.req)

\* C28: every run of the traversal ends: from any point of a run the batch
\* loop reaches the end of the run, also when the dependencies form a cycle
\* and when some of them match no file and are never marked processed.
C28_Terminates == (pc \in {"top", "batch", "files"}) ~> (pc \in {"done", "aborted"})

\* a run has ended after foo and bar, which require each other, were
\* processed and the dependency baz<1 matched no file and was not recorded
C28_Witness ==
    /\ pc = "done"
    /\ \E i, j \in 1..Len(processedLog) : processedLog[i].name = "foo" /\ processedLog[j].name = "bar"
    /\ ReqFooGe2 \in enqueued
    /\ ReqBarGe1 \in enqueued
    /\ ReqBazLt1 \in loggedSkipped
    /\ ~CacheCheck(cache, ReqBazLt1)

\* one iteration of the loop over the files: the metadata is read (the file
\* is parsed, or its archive fails to open) only when _download_file has
\* returned for the file and left a target with the declared digest, and
\* dependencies are collected only from a file that was parsed
C29_ExtractStep ==
    (pc = "files" /\ files # <<>> /\ ev'.kind = "file")
        => /\ ev'.result \in {"ok", "archive"}
               => /\ HashAlg(files[1]) # "TypeError"
                  /\ \E net \in NetFile :
                         /\ DownloadFile(disk[files[1].filename], files[1], HashAlg(files[1]), net).result = "returned"
                         /\ DownloadFile(disk[files[1].filename], files[1], HashAlg(files[1]), net).target = disk'[files[1].filename]
                  /\ Good(files[1].filename, disk'[files[1].filename])
           /\ (depdict' # depdict \/ enqueued' # enqueued) => ev'.result = "ok"

\* C29: _extract_metadata is called, and dependencies are collected, only for
\* a file for which _download_file has just returned with a verified target.
C29_ExtractAfterVerified == [][C29_ExtractStep]_vars

\* a file fetched in this run was parsed and its dependencies were collected
C29_Witness ==
    /\ ev.kind = "file"
    /\ ev.result = "ok"
    /\ fileRequests[ev.filename] = 1
    /\ depdict # <<>>
    /\ \E i \in 1..Len(depdict) : depdict[i].requirement \in enqueued /\ depdict[i].required_by = ev.req
    /\ Good(ev.filename, disk[ev.filename])

\* C30: after _download_file has finished, a target's .hash sidecar exists
\* only beside an existing target and holds the algorithm and the digest the
\* index declares for it; a digest mismatch leaves no sidecar of the rejected bytes.
C30_SidecarOnlyOfVerified ==
    \A fn \in Filenames :
        disk[fn].sidecar # NoSidecar
            => /\ disk[fn].content # Absent
               /\ disk[fn].sidecar = [alg |-> PreferredAlg(FileInfo(fn)),
                                      hex |-> Exphash(FileInfo(fn), PreferredAlg(FileInfo(fn)))]

(***************************************************************************)
(* C31: the selection of _filter_files_by_environment with and without     *)
(* mirror_all_wheels, on the same list of files.                           *)
(***************************************************************************)
\* the requires-python of f admits the python version of every environment
AllPythonsAllowed(f) ==
    f.requires_python = <<>> \/ \A k \in 1..Len(cfg.pyversions) : PythonAllowed(f, cfg.pyversions[k])

C32_ExtraMarkerRelevantForEveryExtra ==
    (ev.kind = "relevant" /\ requirement.marker = Marker("extra", "x") /\ "x" \in required_by.extras)
        => ev.result = "True"

(***************************************************************************)
(* HashCache.hash_file, applied again and again to two paths whose files   *)
(* are written and removed between the calls.  A fresh HashCache starts    *)
(* with no verified path; the sidecars of an earlier process may be on     *)
(* disk.  The mtime of the sidecar, set by touch_file_dt, is not part of   *)
(* the state: mtime is that of the file.                                   *)
(* A file holds the content Garbage or the content 2.                     *)
(***************************************************************************)
\* a hash_file that records the path and writes the sidecar before it
\* compares the digest with the expected one
HashCacheHashFileAddsFirst(ps, t, filepath, hashalg, exphash) ==
    IF filepath \in ps THEN [ret |-> "True", paths |-> ps, target |-> t, read |-> {}]
    ELSE IF t.content = Absent THEN [ret |-> "raise", paths |-> ps, target |-> t, read |-> {}]
    ELSE [ret |-> IF Digest(hashalg, t.content) = exphash THEN "True" ELSE "False",
          paths |-> ps \cup {filepath}, target |-> HashFileWrites(t, hashalg), read |-> {"filepath"}]

\* HashCache.hash_file(filepath, hashalg, exphash) with self.paths = ps and the
\* target t at filepath: the value returned ("raise" when open(filepath) fails),
\* self.paths and the target afterwards, and the files that were read
HashCacheHashFile(ps, t, filepath, hashalg, exphash) ==
    LET hash_ == Digest(hashalg, t.content)
        bytes_ == [alg |-> hashalg, hex |-> hash_]
    IN IF filepath \in ps THEN [ret |-> "True", paths |-> ps, target |-> t, read |-> {}]
       ELSE IF t.content = Absent THEN [ret |-> "raise", paths |-> ps, target |-> t, read |-> {}]
       ELSE IF hash_ # exphash THEN [ret |-> "False", paths |-> ps, target |-> t, read |-> {"filepath"}]
       \* os.path.exists(hfile) and its content is bytes_
       ELSE IF t.sidecar # NoSidecar /\ t.sidecar = bytes_
       THEN [ret |-> "True", paths |-> ps \cup {filepath}, target |-> t, read |-> {"filepath", "hfile"}]
       ELSE [ret |-> "True", paths |-> ps \cup {filepath}, target |-> [t EXCEPT !.sidecar = bytes_],
             read |-> IF t.sidecar # NoSidecar THEN {"filepath", "hfile"} ELSE {"filepath"}]

HashInit ==
    /\ run = 1
    /\ cfg = [hashalgs |-> {"sha256", "md5"}, filepaths |-> {"foo-1.tar.gz", "bar-1.tar.gz"}]
    /\ pc = "hash"
    /\ topIdx = 1
    /\ cache = {}
    /\ \E d \in [cfg.filepaths -> [content : {Absent, Garbage, 2}, mtime : {0},
                                  sidecar : {NoSidecar, [alg |-> "sha256", hex |-> Digest("sha256", 2)],
                                             [alg |-> "md5", hex |-> Digest("md5", Garbage)]}]] :
           disk = [f \in Filenames |-> IF f \in cfg.filepaths THEN d[f] ELSE NoTarget]
    /\ requirement = NoReq
    /\ required_by = NoReq
    /\ files = <<>>
    /\ depdict = <<>>
    /\ deps = <<>>
    /\ depPos = 0
    /\ next_deps = <<>>
    /\ ev = Event("init", NoReq, NoReq, "", "")
    /\ indexRequests = [n \in Packages |-> 0]
    /\ fileRequests = [f \in Filenames |-> 0]
    /\ selected = {}
    /\ enqueued = {}
    /\ loggedSkipped = {}
    /\ frameSelected = <<>>
    /\ frameTried = <<>>
    /\ processedLog = <<>>
    /\ prev = [f \in Filenames |-> NoTarget]
    /\ started = <<>>
    /\ options = <<>>
    /\ paths = {}

\* HCACHE.hash_file(filepath, hashalg, exphash); the event holds the arguments,
\* the value returned and the files read
HashFileCall ==
    \E filepath \in cfg.filepaths, hashalg \in cfg.hashalgs :
      \E exphash \in {Digest(hashalg, c) : c \in {Garbage, 2}} :
        \E r \in {HashCacheHashFile(paths, disk[filepath], filepath, hashalg, exphash)} :
            /\ paths' = r.paths
            /\ disk' = [disk EXCEPT ![filepath] = r.target]
            /\ ev' = Event("hash_file", NoReq, NoReq, filepath,
                           [ret |-> r.ret, hashalg |-> hashalg, exphash |-> exphash, read |-> r.read])
            /\ UNCHANGED <<started, options, run, cfg, pc, topIdx, cache, requirement, required_by, files, depdict, deps,
                           depPos, next_deps, indexRequests, fileRequests, selected, enqueued, loggedSkipped, frameSelected,
                           frameTried, processedLog, prev>>

\* the file at a path is written or removed between two calls, as
\* _download_file does with open(target, "wb") and os.remove(target)
WriteFile ==
    \E filepath \in cfg.filepaths, c \in {Absent, Garbage, 2} :
        /\ disk[filepath].content # c
        /\ disk' = [disk EXCEPT ![filepath].content = c]
        /\ ev' = Event("write", NoReq, NoReq, filepath, "")
        /\ UNCHANGED <<started, options, paths, run, cfg, pc, topIdx, cache, requirement, required_by, files, depdict, deps,
                       depPos, next_deps, indexRequests, fileRequests, selected, enqueued, loggedSkipped, frameSelected,
                       frameTried, processedLog, prev>>

HashNext == HashFileCall \/ WriteFile

HashCacheSpec == HashInit /\ [][HashNext]_vars

\* C33: a call of HashCache.hash_file on a path not yet verified whose digest
\* differs from the expected one returns False and leaves the verified paths
\* and the sidecar as they were; a path enters the verified paths only in a
\* call on that path that found the digest equal to the expected one, and
\* after it the sidecar holds <alg>=<digest>; a call on a path already
\* verified returns True, reads no file and changes nothing.
C33_HashFileStep ==
    ev'.kind = "hash_file"
        => LET f == ev'.filename
               r == ev'.result
           IN /\ (f \notin paths /\ disk[f].content # Absent /\ Digest(r.hashalg, disk[f].content) # r.exphash)
                    => (r.ret = "False" /\ paths' = paths /\ disk' = disk)
              /\ \A p \in paths' \ paths :
                    /\ p = f
                    /\ disk[f].content # Absent /\ Digest(r.hashalg, disk[f].content) = r.exphash
                    /\ disk'[f].sidecar = [alg |-> r.hashalg, hex |-> Digest(r.hashalg, disk[f].content)]
                    /\ disk'[f].content = disk[f].content
              /\ f \in paths => (r.ret = "True" /\ r.read = {} /\ paths' = paths /\ disk' = disk)

C33_HashFileFrame == [][C33_HashFileStep]_vars

\* one path is verified with its sidecar written, its file has changed since
\* and the last call on it returned True without reading; the other path is
\* not verified and holds a sidecar no call has replaced
C33_Witness ==
    /\ ev.kind = "hash_file" /\ ev.result.ret = "True" /\ ev.result.read = {}
    /\ ev.filename \in paths
    /\ disk[ev.filename].content # Absent
    /\ Digest(ev.result.hashalg, disk[ev.filename].content) # ev.result.exphash
    /\ disk[ev.filename].sidecar # NoSidecar
    /\ \E g \in cfg.filepaths \ paths : disk[g].sidecar # NoSidecar

=============================================================================
